---- MODULE Spec2Model ----
(***************************************************************************)
(* Model of the fitness-tracking backend: the four per-domain analyzers    *)
(* (nutrition, sleep, stress, hydration), the comprehensive analyzer that  *)
(* joins them with the workout data, and the HTTP service that shares one  *)
(* set of analyzer instances between all requests.                         *)
(*                                                                         *)
(* Units.  Quantities the program holds as floats with one decimal         *)
(* (sleep_hours, water_intake) are held in tenths: 75 is 7.5.  All values  *)
(* used are multiples of 0.5, so every sum is exact in binary floating     *)
(* point and every rounding tie of a mean is exactly representable; on     *)
(* such values Python's round() is round-half-to-even of the exact mean.   *)
(* Every average the program rounds to one decimal is held in tenths.      *)
(***************************************************************************)
EXTENDS Integers, Sequences, FiniteSets, TLC

VARIABLES
    instance,        \* which analyzer object the library specification constructs
    nutrition_data,  \* NutritionAnalyzer.nutrition_data
    sleep_data,      \* SleepAnalyzer.sleep_data
    stress_data,     \* StressAnalyzer.stress_data
    hydration_data,  \* HydrationAnalyzer.hydration_data
    workout_data,    \* WorkoutAnalyzer.workout_data
    call,            \* the last library call: its name and argument
    ret,             \* what that call returned or raised
    pc,              \* per request thread: position in its handler
    payload,         \* per request thread: request.json
    results,         \* per request thread: the handler's local `results`
    response,        \* per request thread: the response sent
    app              \* the GymApp object of the command-line program: its fields

vars == <<instance, nutrition_data, sleep_data, stress_data, hydration_data,
          workout_data, call, ret, pc, payload, results, response, app>>

analyzerVars == <<nutrition_data, sleep_data, stress_data, hydration_data, workout_data>>
threadVars == <<pc, payload, results, response>>

----------------------------------------------------------------------------
(* Bounds *)

MaxDate == 2          \* dates are 1..MaxDate
MaxLen == 2           \* longest freely enumerated record list
MaxWindow == 3        \* largest window argument passed to a trend call

(* Program constants *)

WeekWindow == 7       \* get_weekly_averages asks for get_*_trends(7)

Dates == 1..MaxDate
NoDate == 0           \* entry.get('date') of an entry without a date: None

----------------------------------------------------------------------------
(* Python values *)

\* {} : the empty mapping
EmptyDict == << >>

\* d.get(k, def)
Get(d, k, def) == IF k \in DOMAIN d THEN d[k] ELSE def

HasKey(d, k) == k \in DOMAIN d

\* A data attribute is None, a list of records, or a single record.
NoneV == [kind |-> "none", items |-> << >>]
ListV(s) == [kind |-> "list", items |-> s]
DictV(r) == [kind |-> "dict", items |-> <<r>>]

\* Python truth value of a data attribute: None, [] and {} are false.
Truthy(v) ==
    /\ v.kind # "none"
    /\ v.kind = "list" => v.items # << >>
    /\ v.kind = "dict" => DOMAIN v.items[1] # {}

\* data if isinstance(data, list) else [data]
Entries(v) == v.items

\* A call either returns a value or raises.
Ret(v) == [val |-> v]
Raise(e) == [raised |-> e]
Raised(r) == "raised" \in DOMAIN r

\* xs[i:] with Python's index normalisation
PySliceFrom(xs, i) ==
    LET n == Len(xs)
        start == IF i < 0 THEN (IF n + i > 0 THEN n + i ELSE 0)
                          ELSE (IF i < n THEN i ELSE n)
    IN  SubSeq(xs, start + 1, n)

\* xs[-days:]
LastN(xs, days) == PySliceFrom(xs, 0 - days)

RECURSIVE SumSeq(_)
SumSeq(s) == IF s = << >> THEN 0 ELSE Head(s) + SumSeq(Tail(s))

\* round(n / d) to the nearest integer, ties to even (n >= 0, d > 0)
RoundHalfEven(n, d) ==
    LET q == n \div d
        r == n % d
    IN  IF 2 * r < d THEN q
        ELSE IF 2 * r > d THEN q + 1
        ELSE IF q % 2 = 0 THEN q ELSE q + 1

\* round(sum(xs) / len(xs), 1) of values held in tenths, result in tenths
AvgTenths(xs) == RoundHalfEven(SumSeq(xs), Len(xs))

\* round(sum(xs) / len(xs), 1) of values held in units, result in tenths
AvgUnits1(xs) == RoundHalfEven(10 * SumSeq(xs), Len(xs))

\* round(sum(xs) / len(xs), 0) of values held in units, result in units
AvgUnits0(xs) == RoundHalfEven(SumSeq(xs), Len(xs))

\* mutation: the scan keeps the last match instead of returning at the first
FirstByDate_last(es, date) ==
    LET I == {i \in 1..Len(es) : Get(es[i], "date", NoDate) = date}
    IN  IF I = {} THEN 0 ELSE CHOOSE i \in I : \A j \in I : i >= j

\* index of the first entry whose date equals the argument, 0 when none
FirstByDate(es, date) ==
    LET I == {i \in 1..Len(es) : Get(es[i], "date", NoDate) = date}
    IN  IF I = {} THEN 0 ELSE CHOOSE i \in I : \A j \in I : i <= j

\* [e.get(k, def) for e in es]
Column(es, k, def) == [i \in 1..Len(es) |-> Get(es[i], k, def)]

----------------------------------------------------------------------------
(* SleepAnalyzer *)

SleepAnalyzer_get_daily_sleep(data, date) ==
    IF ~Truthy(data) THEN EmptyDict
    ELSE LET es == Entries(data)
             i == FirstByDate(es, date)
         IN  IF i = 0 THEN EmptyDict ELSE es[i]

SleepAnalyzer_get_sleep_trends(data, days) ==
    IF ~Truthy(data) THEN EmptyDict
    ELSE LET es == LastN(Entries(data), days)
         IN  [dates |-> Column(es, "date", NoDate),
              sleep_hours |-> Column(es, "sleep_hours", 0),
              sleep_quality |-> Column(es, "sleep_quality", 0)]

SleepAnalyzer_get_weekly_averages(data) ==
    LET trends == SleepAnalyzer_get_sleep_trends(data, WeekWindow)
    IN  IF ~HasKey(trends, "dates") THEN Raise("KeyError")
        ELSE IF trends.dates = << >> THEN Ret(EmptyDict)
        ELSE Ret([avg_sleep_hours |-> AvgTenths(trends.sleep_hours),
                  avg_sleep_quality |-> AvgUnits1(trends.sleep_quality)])

(* StressAnalyzer *)

StressAnalyzer_get_daily_stress(data, date) ==
    IF ~Truthy(data) THEN EmptyDict
    ELSE LET es == Entries(data)
             i == FirstByDate(es, date)
         IN  IF i = 0 THEN EmptyDict ELSE es[i]

StressAnalyzer_get_stress_trends(data, days) ==
    IF ~Truthy(data) THEN EmptyDict
    ELSE LET es == LastN(Entries(data), days)
         IN  [dates |-> Column(es, "date", NoDate),
              stress_levels |-> Column(es, "stress_level", 0),
              stress_factors |-> Column(es, "stress_factors", "")]

StressAnalyzer_get_weekly_averages(data) ==
    LET trends == StressAnalyzer_get_stress_trends(data, WeekWindow)
    IN  IF ~HasKey(trends, "dates") THEN Raise("KeyError")
        ELSE IF trends.dates = << >> THEN Ret(EmptyDict)
        ELSE Ret([avg_stress_level |-> AvgUnits1(trends.stress_levels)])

(* HydrationAnalyzer *)

HydrationAnalyzer_get_daily_hydration(data, date) ==
    IF ~Truthy(data) THEN EmptyDict
    ELSE LET es == Entries(data)
             i == FirstByDate(es, date)
         IN  IF i = 0 THEN EmptyDict ELSE es[i]

HydrationAnalyzer_get_hydration_trends(data, days) ==
    IF ~Truthy(data) THEN EmptyDict
    ELSE LET es == LastN(Entries(data), days)
         IN  [dates |-> Column(es, "date", NoDate),
              water_intake |-> Column(es, "water_intake", 0),
              hydration_quality |-> Column(es, "hydration_quality", 0)]

HydrationAnalyzer_get_weekly_averages(data) ==
    LET trends == HydrationAnalyzer_get_hydration_trends(data, WeekWindow)
    IN  IF ~HasKey(trends, "dates") THEN Raise("KeyError")
        ELSE IF trends.dates = << >> THEN Ret(EmptyDict)
        ELSE Ret([avg_water_intake |-> AvgTenths(trends.water_intake),
                  avg_hydration_quality |-> AvgUnits1(trends.hydration_quality)])

(* NutritionAnalyzer *)

NutritionAnalyzer__get_foods_by_date(data, date) ==
    IF ~Truthy(data) THEN << >>
    ELSE LET es == Entries(data)
             i == FirstByDate(es, date)
         IN  IF i = 0 THEN << >> ELSE Get(es[i], "foods", << >>)

\* mutation: the totals are those of the first food only
NutritionAnalyzer_get_daily_macros_first_food(data, date) ==
    IF ~Truthy(data) THEN EmptyDict
    ELSE LET daily_foods == NutritionAnalyzer__get_foods_by_date(data, date)
         IN  IF daily_foods = << >> THEN EmptyDict
             ELSE [date |-> date,
                   calories |-> Get(daily_foods[1], "calories", 0),
                   protein |-> Get(daily_foods[1], "protein", 0),
                   carbs |-> Get(daily_foods[1], "carbs", 0),
                   fat |-> Get(daily_foods[1], "fat", 0),
                   foods |-> daily_foods]

NutritionAnalyzer_get_daily_macros(data, date) ==
    IF ~Truthy(data) THEN EmptyDict
    ELSE LET daily_foods == NutritionAnalyzer__get_foods_by_date(data, date)
         IN  IF daily_foods = << >> THEN EmptyDict
             ELSE [date |-> date,
                   calories |-> SumSeq(Column(daily_foods, "calories", 0)),
                   protein |-> SumSeq(Column(daily_foods, "protein", 0)),
                   carbs |-> SumSeq(Column(daily_foods, "carbs", 0)),
                   fat |-> SumSeq(Column(daily_foods, "fat", 0)),
                   foods |-> daily_foods]

\* the loop of get_macro_trends over nutrition_entries[-days:]
RECURSIVE MacroTrendsLoop(_, _, _)
MacroTrendsLoop(es, data, trends) ==
    IF es = << >> THEN trends
    ELSE LET date == Get(Head(es), "date", NoDate)
             daily_macros == NutritionAnalyzer_get_daily_macros(data, date)
         IN  MacroTrendsLoop(Tail(es), data,
                 IF daily_macros = EmptyDict THEN trends
                 ELSE [calories |-> Append(trends.calories, daily_macros.calories),
                       protein |-> Append(trends.protein, daily_macros.protein),
                       carbs |-> Append(trends.carbs, daily_macros.carbs),
                       fat |-> Append(trends.fat, daily_macros.fat),
                       dates |-> Append(trends.dates, date)])

NutritionAnalyzer_get_macro_trends(data, days) ==
    IF ~Truthy(data) THEN EmptyDict
    ELSE MacroTrendsLoop(LastN(Entries(data), days), data,
             [calories |-> << >>, protein |-> << >>, carbs |-> << >>,
              fat |-> << >>, dates |-> << >>])

NutritionAnalyzer_get_weekly_averages(data) ==
    LET trends == NutritionAnalyzer_get_macro_trends(data, WeekWindow)
    IN  IF ~HasKey(trends, "dates") THEN Raise("KeyError")
        ELSE IF trends.dates = << >> THEN Ret(EmptyDict)
        ELSE Ret([avg_calories |-> AvgUnits0(trends.calories),
                  avg_protein |-> AvgUnits1(trends.protein),
                  avg_carbs |-> AvgUnits1(trends.carbs),
                  avg_fat |-> AvgUnits1(trends.fat)])

----------------------------------------------------------------------------
(* Textual summaries of the domain analyzers.  A summary text is held as   *)
(* the message it is, or as the weekly averages it prints.                 *)

SummaryOf(data, averages) ==
    IF ~Truthy(data) THEN [text |-> "no data loaded"]
    ELSE IF averages.val = EmptyDict THEN [text |-> "no weekly data available"]
    ELSE [text |-> "7-day average", avg |-> averages.val]

NutritionAnalyzer_get_nutrition_summary(data) ==
    SummaryOf(data, IF Truthy(data) THEN NutritionAnalyzer_get_weekly_averages(data) ELSE Ret(EmptyDict))

SleepAnalyzer_get_sleep_summary(data) ==
    SummaryOf(data, IF Truthy(data) THEN SleepAnalyzer_get_weekly_averages(data) ELSE Ret(EmptyDict))

StressAnalyzer_get_stress_summary(data) ==
    SummaryOf(data, IF Truthy(data) THEN StressAnalyzer_get_weekly_averages(data) ELSE Ret(EmptyDict))

HydrationAnalyzer_get_hydration_summary(data) ==
    SummaryOf(data, IF Truthy(data) THEN HydrationAnalyzer_get_weekly_averages(data) ELSE Ret(EmptyDict))

----------------------------------------------------------------------------
(* ComprehensiveAnalyzer *)

\* Python's None as a returned value
PyNone == [none |-> TRUE]

\* truth value of a returned mapping or None
Present(v) == v # PyNone /\ DOMAIN v # {}

ComprehensiveAnalyzer__get_workout_by_date(wdata, date) ==
    IF ~Truthy(wdata) THEN PyNone
    ELSE LET workouts == Entries(wdata)
             i == FirstByDate(workouts, date)
         IN  IF i = 0 THEN PyNone ELSE workouts[i]

\* sum of weight * reps over the sets of the exercises of one workout
RECURSIVE SetsVolume(_, _)
SetsVolume(weight, sets) ==
    IF sets = << >> THEN 0
    ELSE weight * Get(Head(sets), "reps", 0) + SetsVolume(weight, Tail(sets))

RECURSIVE ExercisesVolume(_)
ExercisesVolume(exercises) ==
    IF exercises = << >> THEN 0
    ELSE SetsVolume(Get(Head(exercises), "weight", 0), Get(Head(exercises), "sets", << >>))
         + ExercisesVolume(Tail(exercises))

ComprehensiveAnalyzer__get_workout_trends(wdata) ==
    IF ~Truthy(wdata) THEN EmptyDict
    ELSE LET ws == LastN(Entries(wdata), WeekWindow)
         IN  [dates |-> Column(ws, "date", NoDate),
              workout_types |-> Column(ws, "workout_type", "Unknown"),
              total_volume |-> [i \in 1..Len(ws) |-> ExercisesVolume(Get(ws[i], "exercises", << >>))],
              exercise_count |-> [i \in 1..Len(ws) |-> Len(Get(ws[i], "exercises", << >>))]]

\* 1 when the condition holds
Point(b) == IF b THEN 1 ELSE 0

\* mutation: the sleep-quality test reads sleep_hours again
ComprehensiveAnalyzer__calculate_recovery_score_hours_twice(nutrition, sleep, stress, hydration) ==
      Point(Get(nutrition, "protein", 0) >= 120)
    + Point(Get(nutrition, "calories", 0) >= 2000)
    + Point(Get(sleep, "sleep_hours", 0) >= 70)
    + Point(Get(sleep, "sleep_hours", 0) >= 70)
    + Point(Get(stress, "stress_level", 10) <= 5)
    + Point(Get(hydration, "water_intake", 0) >= 25)
    + Point(Get(hydration, "hydration_quality", 0) >= 7)

\* mutation: the protein comparison is reversed
ComprehensiveAnalyzer__calculate_recovery_score_protein_reversed(nutrition, sleep, stress, hydration) ==
      Point(Get(nutrition, "protein", 0) <= 120)
    + Point(Get(nutrition, "calories", 0) >= 2000)
    + Point(Get(sleep, "sleep_hours", 0) >= 70)
    + Point(Get(sleep, "sleep_quality", 0) >= 7)
    + Point(Get(stress, "stress_level", 10) <= 5)
    + Point(Get(hydration, "water_intake", 0) >= 25)
    + Point(Get(hydration, "hydration_quality", 0) >= 7)

ComprehensiveAnalyzer__calculate_recovery_score(nutrition, sleep, stress, hydration) ==
      Point(Get(nutrition, "protein", 0) >= 120)
    + Point(Get(nutrition, "calories", 0) >= 2000)
    + Point(Get(sleep, "sleep_hours", 0) >= 70)
    + Point(Get(sleep, "sleep_quality", 0) >= 7)
    + Point(Get(stress, "stress_level", 10) <= 5)
    + Point(Get(hydration, "water_intake", 0) >= 25)
    + Point(Get(hydration, "hydration_quality", 0) >= 7)

\* the strings of a list of (condition, string) pairs whose condition holds
RECURSIVE Triggered(_)
Triggered(rules) ==
    IF rules = << >> THEN << >>
    ELSE IF Head(rules)[1] THEN <<Head(rules)[2]>> \o Triggered(Tail(rules))
    ELSE Triggered(Tail(rules))

\* mutation: the sleep-quality factor uses a threshold above the score's
ComprehensiveAnalyzer__analyze_performance_factors_quality9(workout, nutrition, sleep, stress, hydration) ==
    Triggered(<<
        <<Get(nutrition, "protein", 0) < 100, "Low protein intake limiting recovery">>,
        <<Get(sleep, "sleep_hours", 0) < 70, "Insufficient sleep affecting performance">>,
        <<Get(sleep, "sleep_quality", 0) < 9, "Poor sleep quality impacting recovery">>,
        <<Get(stress, "stress_level", 0) > 7, "High stress levels affecting workout performance">>,
        <<Get(hydration, "water_intake", 0) < 20, "Low water intake affecting performance and recovery">>,
        <<Get(hydration, "hydration_quality", 0) < 6, "Poor hydration quality impacting workout performance">> >>)

ComprehensiveAnalyzer__analyze_performance_factors(workout, nutrition, sleep, stress, hydration) ==
    Triggered(<<
        <<Get(nutrition, "protein", 0) < 100, "Low protein intake limiting recovery">>,
        <<Get(sleep, "sleep_hours", 0) < 70, "Insufficient sleep affecting performance">>,
        <<Get(sleep, "sleep_quality", 0) < 6, "Poor sleep quality impacting recovery">>,
        <<Get(stress, "stress_level", 0) > 7, "High stress levels affecting workout performance">>,
        <<Get(hydration, "water_intake", 0) < 20, "Low water intake affecting performance and recovery">>,
        <<Get(hydration, "hydration_quality", 0) < 6, "Poor hydration quality impacting workout performance">> >>)

\* mutation: the water recommendation starts below the water factor
ComprehensiveAnalyzer__generate_comprehensive_recommendations_water15(workout, nutrition, sleep, stress, hydration) ==
    Triggered(<<
        <<Get(nutrition, "protein", 0) < 120, "Increase protein intake to 120g+ daily">>,
        <<Get(sleep, "sleep_hours", 0) < 70, "Aim for 7-9 hours of sleep nightly">>,
        <<Get(sleep, "sleep_quality", 0) < 6, "Improve sleep hygiene and environment">>,
        <<Get(stress, "stress_level", 0) > 7, "Implement stress management techniques">>,
        <<Get(hydration, "water_intake", 0) < 15, "Increase water intake to 2.5+ liters daily">>,
        <<Get(hydration, "hydration_quality", 0) < 6, "Improve hydration quality and timing">> >>)

ComprehensiveAnalyzer__generate_comprehensive_recommendations(workout, nutrition, sleep, stress, hydration) ==
    Triggered(<<
        <<Get(nutrition, "protein", 0) < 120, "Increase protein intake to 120g+ daily">>,
        <<Get(sleep, "sleep_hours", 0) < 70, "Aim for 7-9 hours of sleep nightly">>,
        <<Get(sleep, "sleep_quality", 0) < 6, "Improve sleep hygiene and environment">>,
        <<Get(stress, "stress_level", 0) > 7, "Implement stress management techniques">>,
        <<Get(hydration, "water_intake", 0) < 25, "Increase water intake to 2.5+ liters daily">>,
        <<Get(hydration, "hydration_quality", 0) < 6, "Improve hydration quality and timing">> >>)

\* mutation: the guard asks for any domain instead of all
AllFivePresent_any(workout, nutrition, sleep, stress, hydration) ==
    Present(workout) \/ Present(nutrition) \/ Present(sleep) \/ Present(stress) \/ Present(hydration)

\* the guard of get_daily_comprehensive_analysis
AllFivePresent(workout, nutrition, sleep, stress, hydration) ==
    Present(workout) /\ Present(nutrition) /\ Present(sleep) /\ Present(stress) /\ Present(hydration)

ComprehensiveAnalyzer_get_daily_comprehensive_analysis(wdata, ndata, sdata, tdata, hdata, date) ==
    LET workout == ComprehensiveAnalyzer__get_workout_by_date(wdata, date)
        nutrition == NutritionAnalyzer_get_daily_macros(ndata, date)
        sleep == SleepAnalyzer_get_daily_sleep(sdata, date)
        stress == StressAnalyzer_get_daily_stress(tdata, date)
        hydration == HydrationAnalyzer_get_daily_hydration(hdata, date)
        all == AllFivePresent(workout, nutrition, sleep, stress, hydration)
    IN  [date |-> date,
         workout |-> workout,
         nutrition |-> nutrition,
         sleep |-> sleep,
         stress |-> stress,
         hydration |-> hydration,
         recovery_score |->
            IF all THEN ComprehensiveAnalyzer__calculate_recovery_score(nutrition, sleep, stress, hydration)
            ELSE 0,
         performance_factors |->
            IF all THEN ComprehensiveAnalyzer__analyze_performance_factors(workout, nutrition, sleep, stress, hydration)
            ELSE << >>,
         recommendations |->
            IF all THEN ComprehensiveAnalyzer__generate_comprehensive_recommendations(workout, nutrition, sleep, stress, hydration)
            ELSE << >>]

\* trends[key] raises KeyError on the empty mapping of an unloaded domain
ComprehensiveAnalyzer__analyze_weekly_correlations(workout_trends, nutrition_trends, sleep_trends, stress_trends, hydration_trends) ==
    IF ~HasKey(workout_trends, "total_volume") THEN Raise("KeyError")
    ELSE IF Len(workout_trends.total_volume) >= 2 /\ ~HasKey(sleep_trends, "sleep_hours") THEN Raise("KeyError")
    ELSE IF ~HasKey(stress_trends, "stress_levels") THEN Raise("KeyError")
    ELSE IF ~HasKey(hydration_trends, "water_intake") THEN Raise("KeyError")
    ELSE Ret([insights |-> Triggered(<<
        <</\ Len(workout_trends.total_volume) >= 2
          /\ Len(sleep_trends.sleep_hours) >= 2
          /\ SumSeq(workout_trends.total_volume) > 8000 * Len(workout_trends.total_volume)
          /\ SumSeq(sleep_trends.sleep_hours) < 65 * Len(sleep_trends.sleep_hours),
          "High workout volume with low sleep may lead to overtraining">>,
        <</\ Len(stress_trends.stress_levels) >= 2
          /\ SumSeq(stress_trends.stress_levels) > 7 * Len(stress_trends.stress_levels),
          "High stress levels may be affecting workout performance and recovery">>,
        <</\ Len(hydration_trends.water_intake) >= 2
          /\ SumSeq(hydration_trends.water_intake) < 20 * Len(hydration_trends.water_intake),
          "Low hydration levels may be limiting workout performance and recovery">> >>)])

\* xs[-1] and xs[-2] of a list of at least two values
Last(xs) == xs[Len(xs)]
Previous(xs) == xs[Len(xs) - 1]

ComprehensiveAnalyzer__generate_weekly_recommendations(workout_trends, nutrition_trends, sleep_trends, stress_trends, hydration_trends) ==
    IF ~HasKey(workout_trends, "total_volume") THEN Raise("KeyError")
    ELSE IF ~HasKey(sleep_trends, "sleep_hours") THEN Raise("KeyError")
    ELSE IF ~HasKey(hydration_trends, "water_intake") THEN Raise("KeyError")
    ELSE Ret(Triggered(<<
        <</\ Len(workout_trends.total_volume) >= 2
          /\ Last(workout_trends.total_volume) > Previous(workout_trends.total_volume),
          "Increase recovery focus as workout volume increases">>,
        <</\ Len(sleep_trends.sleep_hours) >= 2
          /\ Last(sleep_trends.sleep_hours) < 70,
          "Prioritize sleep to support workout performance">>,
        <</\ Len(hydration_trends.water_intake) >= 2
          /\ Last(hydration_trends.water_intake) < 25,
          "Maintain consistent hydration to support workout performance">> >>))

ComprehensiveAnalyzer_get_weekly_comprehensive_analysis(wdata, ndata, sdata, tdata, hdata) ==
    LET workout_trends == ComprehensiveAnalyzer__get_workout_trends(wdata)
        nutrition_trends == NutritionAnalyzer_get_macro_trends(ndata, WeekWindow)
        sleep_trends == SleepAnalyzer_get_sleep_trends(sdata, WeekWindow)
        stress_trends == StressAnalyzer_get_stress_trends(tdata, WeekWindow)
        hydration_trends == HydrationAnalyzer_get_hydration_trends(hdata, WeekWindow)
        insights == ComprehensiveAnalyzer__analyze_weekly_correlations(
                        workout_trends, nutrition_trends, sleep_trends, stress_trends, hydration_trends)
        recs == ComprehensiveAnalyzer__generate_weekly_recommendations(
                        workout_trends, nutrition_trends, sleep_trends, stress_trends, hydration_trends)
    IN  IF Raised(insights) THEN insights
        ELSE IF Raised(recs) THEN recs
        ELSE Ret([workout_trends |-> workout_trends,
                  nutrition_trends |-> nutrition_trends,
                  sleep_trends |-> sleep_trends,
                  stress_trends |-> stress_trends,
                  hydration_trends |-> hydration_trends,
                  correlation_insights |-> insights.val,
                  weekly_recommendations |-> recs.val])

\* the part of the summary text a domain contributes; omitted when the
\* domain's data is not loaded
SummaryPart(data, summary) == IF Truthy(data) THEN summary ELSE [text |-> ""]

ComprehensiveAnalyzer_get_comprehensive_summary(wdata, ndata, sdata, tdata, hdata) ==
    IF ~Truthy(wdata) THEN Ret([text |-> "No workout data loaded"])
    ELSE LET weekly_analysis ==
                 ComprehensiveAnalyzer_get_weekly_comprehensive_analysis(wdata, ndata, sdata, tdata, hdata)
         IN  IF Raised(weekly_analysis) THEN weekly_analysis
             ELSE Ret([text |-> "COMPREHENSIVE FITNESS ANALYSIS",
                       nutrition |-> SummaryPart(ndata, NutritionAnalyzer_get_nutrition_summary(ndata)),
                       sleep |-> SummaryPart(sdata, SleepAnalyzer_get_sleep_summary(sdata)),
                       stress |-> SummaryPart(tdata, StressAnalyzer_get_stress_summary(tdata)),
                       hydration |-> SummaryPart(hdata, HydrationAnalyzer_get_hydration_summary(hdata)),
                       insights |-> weekly_analysis.val.correlation_insights.insights,
                       recommendations |-> weekly_analysis.val.weekly_recommendations])

----------------------------------------------------------------------------
(* Inputs of the analyzer specification *)

\* all sequences over S of length at most n
SeqUpTo(S, n) == UNION {[1..k -> S] : k \in 0..n}

\* lists one longer than the weekly window: a first record followed by
\* WeekWindow copies of another
LongLists(S) == {[i \in 1..(WeekWindow + 1) |-> IF i = 1 THEN a ELSE b] : a, b \in S}

\* what a caller may pass to load_*_data
DataValues(S) ==
    {NoneV} \cup {ListV(s) : s \in SeqUpTo(S, MaxLen) \cup LongLists(S)}
            \cup {DictV(r) : r \in S}

\* a short poor night or a long good one per date, and a record with no metrics
SleepRecs ==
    {[date |-> d, sleep_hours |-> m[1], sleep_quality |-> m[2]] :
        d \in Dates, m \in {<<60, 5>>, <<75, 8>>}} \cup {[date |-> 1]}

StressRecs ==
    [date : Dates, stress_level : {3, 8}, stress_factors : {"work"}] \cup {[date |-> 1]}

HydrationRecs ==
    {[date |-> d, water_intake |-> m[1], hydration_quality |-> m[2]] :
        d \in Dates, m \in {<<15, 5>>, <<30, 8>>}} \cup {[date |-> 1]}

Rice == [name |-> "Rice", calories |-> 200, protein |-> 5, carbs |-> 45, fat |-> 1]
Chicken == [name |-> "Chicken", calories |-> 300, protein |-> 40, carbs |-> 0, fat |-> 10]
Water == [name |-> "Water"]

FoodLists == {<<Rice, Chicken>>, <<Water>>}

\* a day with food per date, a day with an empty food list, a day with no
\* food list
NutritionRecs ==
    [date : Dates, foods : FoodLists] \cup {[date |-> 1, foods |-> << >>], [date |-> 1]}

Windows == 0..MaxWindow

Threads == {1, 2}

InitThreads ==
    /\ pc = [t \in Threads |-> [stage |-> "none", phase |-> "idle"]]
    /\ payload = [t \in Threads |-> EmptyDict]
    /\ results = [t \in Threads |-> EmptyDict]
    /\ response = [t \in Threads |-> EmptyDict]

InitAnalyzers ==
    /\ nutrition_data = NoneV
    /\ sleep_data = NoneV
    /\ stress_data = NoneV
    /\ hydration_data = NoneV
    /\ workout_data = NoneV

NoCall == [op |-> "none", arg |-> 0]

\* no GymApp object has been constructed
NoApp == EmptyDict

----------------------------------------------------------------------------
(* Calls on one analyzer object *)

Returns(op, arg, r) ==
    /\ call' = [op |-> op, arg |-> arg]
    /\ ret' = r
    /\ UNCHANGED <<instance, threadVars, app>>

load_nutrition_data(data) ==
    /\ nutrition_data' = data
    /\ UNCHANGED <<sleep_data, stress_data, hydration_data, workout_data>>
    /\ Returns("load", data, Ret(NoneV))

load_sleep_data(data) ==
    /\ sleep_data' = data
    /\ UNCHANGED <<nutrition_data, stress_data, hydration_data, workout_data>>
    /\ Returns("load", data, Ret(NoneV))

\* mutation: the load extends the list already held
load_stress_data_appending(data) ==
    /\ stress_data' = IF stress_data.kind = "list" /\ data.kind = "list"
                      THEN ListV(stress_data.items \o data.items)
                      ELSE data
    /\ UNCHANGED <<nutrition_data, sleep_data, hydration_data, workout_data>>
    /\ Returns("load", data, Ret(NoneV))

load_stress_data(data) ==
    /\ stress_data' = data
    /\ UNCHANGED <<nutrition_data, sleep_data, hydration_data, workout_data>>
    /\ Returns("load", data, Ret(NoneV))

load_hydration_data(data) ==
    /\ hydration_data' = data
    /\ UNCHANGED <<nutrition_data, sleep_data, stress_data, workout_data>>
    /\ Returns("load", data, Ret(NoneV))

get_daily_macros(date) ==
    /\ Returns("get_daily", date, Ret(NutritionAnalyzer_get_daily_macros(nutrition_data, date)))
    /\ UNCHANGED analyzerVars

get_daily_sleep(date) ==
    /\ Returns("get_daily", date, Ret(SleepAnalyzer_get_daily_sleep(sleep_data, date)))
    /\ UNCHANGED analyzerVars

get_daily_stress(date) ==
    /\ Returns("get_daily", date, Ret(StressAnalyzer_get_daily_stress(stress_data, date)))
    /\ UNCHANGED analyzerVars

\* mutation: the lookup consumes the loaded records
get_daily_hydration_draining(date) ==
    /\ Returns("get_daily", date, Ret(HydrationAnalyzer_get_daily_hydration(hydration_data, date)))
    /\ hydration_data' = NoneV
    /\ UNCHANGED <<nutrition_data, sleep_data, stress_data, workout_data>>

get_daily_hydration(date) ==
    /\ Returns("get_daily", date, Ret(HydrationAnalyzer_get_daily_hydration(hydration_data, date)))
    /\ UNCHANGED analyzerVars

get_macro_trends(days) ==
    /\ Returns("get_trend", days, Ret(NutritionAnalyzer_get_macro_trends(nutrition_data, days)))
    /\ UNCHANGED analyzerVars

get_sleep_trends(days) ==
    /\ Returns("get_trend", days, Ret(SleepAnalyzer_get_sleep_trends(sleep_data, days)))
    /\ UNCHANGED analyzerVars

get_stress_trends(days) ==
    /\ Returns("get_trend", days, Ret(StressAnalyzer_get_stress_trends(stress_data, days)))
    /\ UNCHANGED analyzerVars

get_hydration_trends(days) ==
    /\ Returns("get_trend", days, Ret(HydrationAnalyzer_get_hydration_trends(hydration_data, days)))
    /\ UNCHANGED analyzerVars

nutrition_get_weekly_averages ==
    /\ Returns("get_weekly_averages", 0, NutritionAnalyzer_get_weekly_averages(nutrition_data))
    /\ UNCHANGED analyzerVars

sleep_get_weekly_averages ==
    /\ Returns("get_weekly_averages", 0, SleepAnalyzer_get_weekly_averages(sleep_data))
    /\ UNCHANGED analyzerVars

stress_get_weekly_averages ==
    /\ Returns("get_weekly_averages", 0, StressAnalyzer_get_weekly_averages(stress_data))
    /\ UNCHANGED analyzerVars

hydration_get_weekly_averages ==
    /\ Returns("get_weekly_averages", 0, HydrationAnalyzer_get_weekly_averages(hydration_data))
    /\ UNCHANGED analyzerVars

(* The analyzer specification: one analyzer object of one of the four      *)
(* classes is constructed and then called in any order.                    *)

Instances == {"nutrition", "sleep", "stress", "hydration"}

Init ==
    /\ instance \in Instances
    /\ InitAnalyzers
    /\ call = NoCall
    /\ ret = Ret(NoneV)
    /\ InitThreads
    /\ app = NoApp

NutritionCalls ==
    /\ instance = "nutrition"
    /\ \/ \E data \in DataValues(NutritionRecs) : load_nutrition_data(data)
       \/ \E date \in Dates : get_daily_macros(date)
       \/ \E days \in Windows : get_macro_trends(days)
       \/ nutrition_get_weekly_averages

SleepCalls ==
    /\ instance = "sleep"
    /\ \/ \E data \in DataValues(SleepRecs) : load_sleep_data(data)
       \/ \E date \in Dates : get_daily_sleep(date)
       \/ \E days \in Windows : get_sleep_trends(days)
       \/ sleep_get_weekly_averages

StressCalls ==
    /\ instance = "stress"
    /\ \/ \E data \in DataValues(StressRecs) : load_stress_data(data)
       \/ \E date \in Dates : get_daily_stress(date)
       \/ \E days \in Windows : get_stress_trends(days)
       \/ stress_get_weekly_averages

HydrationCalls ==
    /\ instance = "hydration"
    /\ \/ \E data \in DataValues(HydrationRecs) : load_hydration_data(data)
       \/ \E date \in Dates : get_daily_hydration(date)
       \/ \E days \in Windows : get_hydration_trends(days)
       \/ hydration_get_weekly_averages

Next == NutritionCalls \/ SleepCalls \/ StressCalls \/ HydrationCalls

Spec == Init /\ [][Next]_vars

----------------------------------------------------------------------------
(* The comprehensive specification: the five analyzers are constructed     *)
(* empty, wired into one ComprehensiveAnalyzer, loaded in any order and    *)
(* queried.                                                                *)

\* workout_analyzer.workout_data = data
set_workout_data(data) ==
    /\ workout_data' = data
    /\ UNCHANGED <<nutrition_data, sleep_data, stress_data, hydration_data>>
    /\ Returns("load", data, Ret(NoneV))

get_daily_comprehensive_analysis(date) ==
    /\ Returns("get_daily_comprehensive_analysis", date,
               Ret(ComprehensiveAnalyzer_get_daily_comprehensive_analysis(
                       workout_data, nutrition_data, sleep_data, stress_data, hydration_data, date)))
    /\ UNCHANGED analyzerVars

get_weekly_comprehensive_analysis ==
    /\ Returns("get_weekly_comprehensive_analysis", 0,
               ComprehensiveAnalyzer_get_weekly_comprehensive_analysis(
                   workout_data, nutrition_data, sleep_data, stress_data, hydration_data))
    /\ UNCHANGED analyzerVars

get_comprehensive_summary ==
    /\ Returns("get_comprehensive_summary", 0,
               ComprehensiveAnalyzer_get_comprehensive_summary(
                   workout_data, nutrition_data, sleep_data, stress_data, hydration_data))
    /\ UNCHANGED analyzerVars

\* None, the empty list, every single record, and the given two-record lists
Scenarios(singles, pairs) ==
    {NoneV, ListV(<< >>)} \cup {ListV(<<r>>) : r \in singles} \cup {ListV(p) : p \in pairs}

Shake == [name |-> "Shake", calories |-> 400, protein |-> 130, carbs |-> 20, fat |-> 5]
Feast == [name |-> "Feast", calories |-> 2100, protein |-> 50, carbs |-> 250, fat |-> 70]

ScenarioNutrition ==
    Scenarios([date : {1}, foods : {<< >>, <<Rice>>, <<Shake>>, <<Feast>>, <<Shake, Feast>>}],
              {<<[date |-> 1, foods |-> <<Rice>>], [date |-> MaxDate, foods |-> <<Shake, Feast>>]>>})

ScenarioSleep ==
    Scenarios([date : {1}, sleep_hours : {60, 75}, sleep_quality : {5, 8}],
              {<<[date |-> 1, sleep_hours |-> 60, sleep_quality |-> 5],
                 [date |-> MaxDate, sleep_hours |-> 75, sleep_quality |-> 8]>>,
               <<[date |-> 1, sleep_hours |-> 75, sleep_quality |-> 8],
                 [date |-> 1, sleep_hours |-> 60, sleep_quality |-> 5]>>})

ScenarioStress ==
    Scenarios([date : {1}, stress_level : {3, 8}, stress_factors : {"work"}]
                 \cup {[date |-> 1, stress_factors |-> "work"]},
              {<<[date |-> 1, stress_level |-> 8, stress_factors |-> "work"],
                 [date |-> MaxDate, stress_level |-> 8, stress_factors |-> "work"]>>,
               <<[date |-> 1, stress_level |-> 3, stress_factors |-> "work"],
                 [date |-> 1, stress_level |-> 8, stress_factors |-> "work"]>>})

ScenarioHydration ==
    Scenarios([date : {1}, water_intake : {15, 30}, hydration_quality : {5, 8}],
              {<<[date |-> 1, water_intake |-> 15, hydration_quality |-> 5],
                 [date |-> MaxDate, water_intake |-> 15, hydration_quality |-> 8]>>,
               <<[date |-> 1, water_intake |-> 30, hydration_quality |-> 8],
                 [date |-> 1, water_intake |-> 15, hydration_quality |-> 5]>>})

Bench == [name |-> "Bench", weight |-> 60,
          sets |-> <<[set |-> 1, reps |-> 10], [set |-> 2, reps |-> 8]>>]
Squat == [name |-> "Squat", weight |-> 200,
          sets |-> <<[set |-> 1, reps |-> 25], [set |-> 2, reps |-> 20]>>]

Light(d) == [date |-> d, workout_type |-> "Push", exercises |-> <<Bench>>]
Heavy(d) == [date |-> d, workout_type |-> "Legs", exercises |-> <<Squat>>]

ScenarioWorkouts ==
    Scenarios({Light(1)},
              {<<Light(1), Heavy(MaxDate)>>, <<Heavy(1), Heavy(MaxDate)>>, <<Heavy(1), Light(1)>>})

InitComprehensive ==
    /\ instance = "comprehensive"
    /\ InitAnalyzers
    /\ call = NoCall
    /\ ret = Ret(NoneV)
    /\ InitThreads
    /\ app = NoApp

NextComprehensive ==
    \/ \E data \in ScenarioWorkouts : set_workout_data(data)
    \/ \E data \in ScenarioNutrition : load_nutrition_data(data)
    \/ \E data \in ScenarioSleep : load_sleep_data(data)
    \/ \E data \in ScenarioStress : load_stress_data(data)
    \/ \E data \in ScenarioHydration : load_hydration_data(data)
    \/ \E date \in Dates : get_daily_comprehensive_analysis(date)
    \/ get_weekly_comprehensive_analysis
    \/ get_comprehensive_summary

SpecComprehensive == InitComprehensive /\ [][NextComprehensive]_vars

----------------------------------------------------------------------------
(* The HTTP service.  app.py builds ONE AnalysisService at import time;    *)
(* every request handler loads into and reads from its analyzers.  A       *)
(* handler is a sequence of steps: an assignment to an analyzer's data     *)
(* attribute and the later call that reads it are separate steps, between  *)
(* which another request thread may run.                                   *)

\* the domains of an /analyze payload, in the order the handler treats them
Stages == <<"nutrition", "workouts", "sleep", "stress", "hydration">>

\* data.get(key, [])
Field(p, key) == Get(p, key, << >>)

\* the stages from index i on whose payload list is non-empty
LaterStages(p, i) == {j \in i..Len(Stages) : Field(p, Stages[j]) # << >>}

Idle == [stage |-> "none", phase |-> "idle"]
Done == [stage |-> "none", phase |-> "done"]

\* where the /analyze handler goes next from stage index i on: the next
\* domain the payload carries, or the closing steps
PcFrom(p, i) ==
    IF LaterStages(p, i) = {} THEN [stage |-> "summary", phase |-> "use"]
    ELSE LET j == CHOOSE j \in LaterStages(p, i) : \A k \in LaterStages(p, i) : j <= k
         IN  [stage |-> Stages[j], phase |-> "load"]

StageIndex(name) == CHOOSE i \in 1..Len(Stages) : Stages[i] = name

\* the shared analyzer attribute a stage works on
SharedData(stage) ==
    CASE stage = "nutrition" -> nutrition_data
      [] stage = "workouts" -> workout_data
      [] stage = "sleep" -> sleep_data
      [] stage = "stress" -> stress_data
      [] stage = "hydration" -> hydration_data

\* analysis_service.<analyzer>.load_*_data(list), or .workout_data = list
Assign(stage, data) ==
    /\ nutrition_data' = IF stage = "nutrition" THEN data ELSE nutrition_data
    /\ workout_data' = IF stage = "workouts" THEN data ELSE workout_data
    /\ sleep_data' = IF stage = "sleep" THEN data ELSE sleep_data
    /\ stress_data' = IF stage = "stress" THEN data ELSE stress_data
    /\ hydration_data' = IF stage = "hydration" THEN data ELSE hydration_data

\* WorkoutAnalyzer.analyze_workouts(): one outbound call whose reply is a
\* function of the prompt, which is a rendering of workout_data; a failed
\* call yields an error text instead.
\* mutation: a failed outbound call is attempted once more
WorkoutAnalyzer_analyze_workouts_retrying(wdata, upstream) ==
    IF wdata.kind = "none" THEN [text |-> "No workout data loaded", attempts |-> << >>]
    ELSE IF upstream[1] = "ok"
         THEN [text |-> "advice", prompt |-> Entries(wdata), attempts |-> <<"ok">>]
    ELSE IF upstream[2] = "ok"
         THEN [text |-> "advice", prompt |-> Entries(wdata), attempts |-> <<"raised", "ok">>]
    ELSE [text |-> "Error calling OpenAI API", attempts |-> <<"raised", "raised">>]

\* analyze_workouts(): the returned text, held with the prompt sent and the
\* outcomes of the outbound calls made while producing it.  upstream[i] is
\* what the i-th call to the text-generation service would do.
WorkoutAnalyzer_analyze_workouts(wdata, upstream) ==
    IF wdata.kind = "none" THEN [text |-> "No workout data loaded", attempts |-> << >>]
    ELSE IF upstream[1] = "ok"
         THEN [text |-> "advice", prompt |-> Entries(wdata), attempts |-> <<"ok">>]
    ELSE [text |-> "Error calling OpenAI API", attempts |-> <<"raised">>]

\* <analyzer>.get_weekly_averages() of a stage
WeeklyAverages(stage, data) ==
    CASE stage = "nutrition" -> NutritionAnalyzer_get_weekly_averages(data)
      [] stage = "sleep" -> SleepAnalyzer_get_weekly_averages(data)
      [] stage = "stress" -> StressAnalyzer_get_weekly_averages(data)
      [] stage = "hydration" -> HydrationAnalyzer_get_weekly_averages(data)

ResultKey(stage) ==
    CASE stage = "nutrition" -> "nutrition_analysis"
      [] stage = "workouts" -> "workout_analysis"
      [] stage = "sleep" -> "sleep_analysis"
      [] stage = "stress" -> "stress_analysis"
      [] stage = "hydration" -> "hydration_analysis"

\* results[key] = value
With(d, key, value) == [k \in DOMAIN d \cup {key} |-> IF k = key THEN value ELSE d[k]]

\* the try/except around get_comprehensive_summary in /analyze
SummaryOrFallback(summary) ==
    IF Raised(summary) THEN [text |-> "Analysis available with individual components only"]
    ELSE summary.val

Ok200(p, analysis, summary_keys) ==
    [status |-> 200,
     body |-> [success |-> TRUE,
               user_id |-> Get(p, "user_id", ""),
               analysis |-> analysis,
               data_summary |-> [k \in summary_keys |-> Len(Field(p, k))]]]

BadRequest(message) == [status |-> 400, body |-> [error |-> message]]

ServerError(message) == [status |-> 500, body |-> [success |-> FALSE, error |-> message]]

NoResponse == EmptyDict

\* a step of thread t: new position, new local results, new response
Step(t, position, res, resp) ==
    /\ pc' = [pc EXCEPT ![t] = position]
    /\ results' = [results EXCEPT ![t] = res]
    /\ response' = [response EXCEPT ![t] = resp]
    /\ UNCHANGED <<instance, call, ret, payload, app>>

\* POST /analyze arrives: request.json, the user_id check, the extraction
comprehensive_analysis(t, p) ==
    /\ pc[t] = Idle
    /\ payload' = [payload EXCEPT ![t] = p]
    /\ pc' = [pc EXCEPT ![t] = IF Get(p, "user_id", "") = "" THEN Done ELSE PcFrom(p, 1)]
    /\ results' = [results EXCEPT ![t] = EmptyDict]
    /\ response' = [response EXCEPT ![t] =
                       IF Get(p, "user_id", "") = "" THEN BadRequest("user_id is required")
                       ELSE NoResponse]
    /\ UNCHANGED <<instance, call, ret, analyzerVars, app>>

\* POST /nutrition/analyze arrives
nutrition_analysis(t, p) ==
    /\ pc[t] = Idle
    /\ payload' = [payload EXCEPT ![t] = p]
    /\ pc' = [pc EXCEPT ![t] = IF Field(p, "nutrition") = << >> THEN Done
                                ELSE [stage |-> "nutrition", phase |-> "load"]]
    /\ results' = [results EXCEPT ![t] = EmptyDict]
    /\ response' = [response EXCEPT ![t] =
                       IF Field(p, "nutrition") = << >> THEN BadRequest("nutrition data is required")
                       ELSE NoResponse]
    /\ UNCHANGED <<instance, call, ret, analyzerVars, app>>

\* POST /workout/analyze arrives
workout_analysis(t, p) ==
    /\ pc[t] = Idle
    /\ payload' = [payload EXCEPT ![t] = p]
    /\ pc' = [pc EXCEPT ![t] = IF Field(p, "workouts") = << >> THEN Done
                                ELSE [stage |-> "workouts", phase |-> "load"]]
    /\ results' = [results EXCEPT ![t] = EmptyDict]
    /\ response' = [response EXCEPT ![t] =
                       IF Field(p, "workouts") = << >> THEN BadRequest("workout data is required")
                       ELSE NoResponse]
    /\ UNCHANGED <<instance, call, ret, analyzerVars, app>>

\* the handler stores the request's list in the shared analyzer
LoadStep(t) ==
    /\ pc[t].phase = "load"
    /\ Assign(pc[t].stage, ListV(Field(payload[t], pc[t].stage)))
    /\ Step(t, [stage |-> pc[t].stage, phase |-> "use"], results[t], response[t])

\* /analyze: <analyzer>.get_weekly_averages() on the shared analyzer
AveragesStep(t) ==
    /\ pc[t].phase = "use"
    /\ pc[t].stage \in {"nutrition", "sleep", "stress", "hydration"}
    /\ payload[t].endpoint = "/analyze"
    /\ LET averages == WeeklyAverages(pc[t].stage, SharedData(pc[t].stage))
       IN  IF Raised(averages)
           THEN Step(t, Done, results[t], ServerError(averages.raised))
           ELSE Step(t, PcFrom(payload[t], StageIndex(pc[t].stage) + 1),
                     IF averages.val # EmptyDict
                     THEN With(results[t], ResultKey(pc[t].stage), averages.val)
                     ELSE results[t],
                     response[t])
    /\ UNCHANGED analyzerVars

\* /analyze: workout_analyzer.analyze_workouts() on the shared analyzer
AnalyzeWorkoutsStep(t, upstream) ==
    /\ pc[t] = [stage |-> "workouts", phase |-> "use"]
    /\ payload[t].endpoint = "/analyze"
    /\ Step(t, PcFrom(payload[t], StageIndex("workouts") + 1),
            With(results[t], "workout_analysis",
                 WorkoutAnalyzer_analyze_workouts(workout_data, upstream)),
            response[t])
    /\ UNCHANGED analyzerVars

\* /analyze: the comprehensive summary when the request carries workouts,
\* then the response
SummaryStep(t) ==
    /\ pc[t] = [stage |-> "summary", phase |-> "use"]
    /\ LET final == IF Field(payload[t], "workouts") # << >>
                    THEN With(results[t], "comprehensive_summary",
                              SummaryOrFallback(ComprehensiveAnalyzer_get_comprehensive_summary(
                                  workout_data, nutrition_data, sleep_data, stress_data, hydration_data)))
                    ELSE results[t]
       IN  Step(t, Done, final,
                Ok200(payload[t], final,
                      {"nutrition", "workouts", "sleep", "stress", "hydration"}))
    /\ UNCHANGED analyzerVars

\* /nutrition/analyze: get_weekly_averages() and the response
NutritionRespondStep(t) ==
    /\ pc[t] = [stage |-> "nutrition", phase |-> "use"]
    /\ payload[t].endpoint = "/nutrition/analyze"
    /\ LET averages == NutritionAnalyzer_get_weekly_averages(nutrition_data)
       IN  IF Raised(averages)
           THEN Step(t, Done, results[t], ServerError(averages.raised))
           ELSE Step(t, Done, averages.val, Ok200(payload[t], averages.val, {"nutrition"}))
    /\ UNCHANGED analyzerVars

\* /workout/analyze: analyze_workouts() and the response
WorkoutRespondStep(t, upstream) ==
    /\ pc[t] = [stage |-> "workouts", phase |-> "use"]
    /\ payload[t].endpoint = "/workout/analyze"
    /\ LET advice == WorkoutAnalyzer_analyze_workouts(workout_data, upstream)
       IN  Step(t, Done, advice, Ok200(payload[t], advice, {"workouts"}))
    /\ UNCHANGED analyzerVars

\* the response has been sent; the thread is free for the next request
Deliver(t) ==
    /\ pc[t] = Done
    /\ pc' = [pc EXCEPT ![t] = Idle]
    /\ payload' = [payload EXCEPT ![t] = EmptyDict]
    /\ results' = [results EXCEPT ![t] = EmptyDict]
    /\ response' = [response EXCEPT ![t] = NoResponse]
    /\ UNCHANGED <<instance, call, ret, analyzerVars, app>>

\* what the text-generation service does on each successive call
Outcomes == {"ok", "raised"}
Upstreams == [1..2 -> Outcomes]

\* request bodies
Meals1 == <<[date |-> 1, foods |-> <<Rice, Chicken>>]>>
Meals2 == <<[date |-> 1, foods |-> <<Shake, Feast>>]>>
Nights1 == <<[date |-> 1, sleep_hours |-> 60, sleep_quality |-> 5]>>
Nights2 == <<[date |-> 1, sleep_hours |-> 75, sleep_quality |-> 8]>>
Strain1 == <<[date |-> 1, stress_level |-> 8, stress_factors |-> "work"]>>
Drinks1 == <<[date |-> 1, water_intake |-> 15, hydration_quality |-> 5]>>
Sessions1 == <<Light(1)>>

AnalyzePayloads ==
    [endpoint : {"/analyze"}, user_id : {"u1"},
     nutrition : {<< >>, Meals1}, workouts : {<< >>, Sessions1},
     sleep : {<< >>, Nights1, Nights2}, stress : {<< >>, Strain1},
     hydration : {<< >>, Drinks1}]
    \cup {[endpoint |-> "/analyze"]}

NutritionPayloads ==
    {[endpoint |-> "/nutrition/analyze", user_id |-> "u1", nutrition |-> Meals2],
     [endpoint |-> "/nutrition/analyze", user_id |-> "u1"]}

WorkoutPayloads ==
    {[endpoint |-> "/workout/analyze", user_id |-> "u1", workouts |-> Sessions1],
     [endpoint |-> "/workout/analyze", user_id |-> "u1"]}

\* the /analyze bodies of the concurrent specification
ConcurrentPayloads ==
    {p \in AnalyzePayloads :
        /\ HasKey(p, "user_id")
        /\ p.sleep # << >>
        /\ p.stress = << >> <=> p.workouts = << >>
        /\ p.hydration = << >> <=> p.workouts = << >>
        /\ p.nutrition = << >>}

InitService ==
    /\ instance = "service"
    /\ InitAnalyzers
    /\ call = NoCall
    /\ ret = Ret(NoneV)
    /\ InitThreads
    /\ app = NoApp

\* no other request is in progress
Quiet(t) == \A u \in Threads \ {t} : pc[u] = Idle

HandlerSteps ==
    \E t \in Threads :
        \/ LoadStep(t)
        \/ AveragesStep(t)
        \/ \E upstream \in Upstreams : AnalyzeWorkoutsStep(t, upstream)
        \/ SummaryStep(t)
        \/ NutritionRespondStep(t)
        \/ \E upstream \in Upstreams : WorkoutRespondStep(t, upstream)
        \/ Deliver(t)

(* Requests served one after the other by the shared service *)
NextService ==
    \/ \E t \in Threads : Quiet(t) /\ \E p \in AnalyzePayloads : comprehensive_analysis(t, p)
    \/ \E t \in Threads : Quiet(t) /\ \E p \in NutritionPayloads : nutrition_analysis(t, p)
    \/ \E t \in Threads : Quiet(t) /\ \E p \in WorkoutPayloads : workout_analysis(t, p)
    \/ HandlerSteps

SpecService == InitService /\ [][NextService]_vars

(* Requests served by concurrent threads of the shared service *)
NextConcurrent ==
    \/ \E t \in Threads : \E p \in ConcurrentPayloads : comprehensive_analysis(t, p)
    \/ \E t \in Threads : \E p \in NutritionPayloads : nutrition_analysis(t, p)
    \/ \E t \in Threads : \E p \in WorkoutPayloads : workout_analysis(t, p)
    \/ HandlerSteps

SpecConcurrent == InitService /\ [][NextConcurrent]_vars


----------------------------------------------------------------------------
(* Loaded documents.  What json.load returns is a list, a mapping, or a    *)
(* scalar; inside it, a value found where a mapping is expected (an        *)
(* element of a record list, a food, an exercise, a set) is a mapping or   *)
(* NotAMapping(type), and a value found where a list is expected (foods,   *)
(* exercises, sets) is a sequence or NotAList(type).  Strings in documents *)
(* do not contain a field name as a substring.                             *)

ScalarV(type) == [kind |-> type, items |-> << >>]

NotAMapping(type) == [scalar |-> type]
IsMapping(v) == ~HasKey(v, "scalar")

NotAList(type) == [i \in {0} |-> type]
IsList(v) == 0 \notin DOMAIN v

\* the value _validate_*(data) receives when data is not a list
Single(data) ==
    IF data.kind = "dict" THEN data.items[1] ELSE NotAMapping(data.kind)

\* all(field in x for field in required_fields): a membership test on a
\* number or on None raises TypeError, on a string or a list it is False
AllFieldsIn(required_fields, x) ==
    IF IsMapping(x) THEN Ret(\A i \in 1..Len(required_fields) : HasKey(x, required_fields[i]))
    ELSE IF x.scalar \in {"number", "none"} THEN Raise("TypeError")
    ELSE Ret(FALSE)

\* all(...) over a generator, and the loops `if not ok(x): return False`:
\* the first element that is False or raises decides
RECURSIVE AllTrue(_)
AllTrue(rs) ==
    IF rs = << >> THEN Ret(TRUE)
    ELSE IF Raised(Head(rs)) THEN Head(rs)
    ELSE IF ~Head(rs).val THEN Ret(FALSE)
    ELSE AllTrue(Tail(rs))

----------------------------------------------------------------------------
(* JSON loaders: validate *)

JSONWorkoutLoader__validate_exercise(exercise) ==
    LET has == AllFieldsIn(<<"name", "weight", "sets">>, exercise)
    IN  IF Raised(has) THEN has
        ELSE IF ~has.val THEN Ret(FALSE)
        ELSE IF ~IsList(exercise.sets) THEN Ret(FALSE)
        ELSE Ret(\A i \in 1..Len(exercise.sets) :
                    IsMapping(exercise.sets[i]) /\ HasKey(exercise.sets[i], "reps"))

JSONWorkoutLoader__validate_workout(workout) ==
    LET has == AllFieldsIn(<<"date", "exercises">>, workout)
    IN  IF Raised(has) THEN has
        ELSE IF ~has.val THEN Ret(FALSE)
        ELSE IF ~IsList(workout.exercises) THEN Ret(FALSE)
        ELSE AllTrue([i \in 1..Len(workout.exercises) |->
                         JSONWorkoutLoader__validate_exercise(workout.exercises[i])])

JSONWorkoutLoader_validate(data) ==
    IF data.kind = "list"
    THEN AllTrue([i \in 1..Len(data.items) |-> JSONWorkoutLoader__validate_workout(data.items[i])])
    ELSE JSONWorkoutLoader__validate_workout(Single(data))

JSONNutritionLoader__validate_food(food) ==
    AllFieldsIn(<<"name", "calories", "protein", "carbs", "fat">>, food)

JSONNutritionLoader__validate_nutrition_entry(entry) ==
    LET has == AllFieldsIn(<<"date", "foods">>, entry)
    IN  IF Raised(has) THEN has
        ELSE IF ~has.val THEN Ret(FALSE)
        ELSE IF ~IsList(entry.foods) THEN Ret(FALSE)
        ELSE AllTrue([i \in 1..Len(entry.foods) |->
                         JSONNutritionLoader__validate_food(entry.foods[i])])

JSONNutritionLoader_validate(data) ==
    IF data.kind = "list"
    THEN AllTrue([i \in 1..Len(data.items) |->
                     JSONNutritionLoader__validate_nutrition_entry(data.items[i])])
    ELSE JSONNutritionLoader__validate_nutrition_entry(Single(data))

JSONSleepLoader__validate_sleep_entry(entry) ==
    AllFieldsIn(<<"date", "sleep_hours", "sleep_quality">>, entry)

JSONSleepLoader_validate(data) ==
    IF data.kind = "list"
    THEN AllTrue([i \in 1..Len(data.items) |-> JSONSleepLoader__validate_sleep_entry(data.items[i])])
    ELSE JSONSleepLoader__validate_sleep_entry(Single(data))

JSONStressLoader__validate_stress_entry(entry) ==
    AllFieldsIn(<<"date", "stress_level", "stress_factors">>, entry)

JSONStressLoader_validate(data) ==
    IF data.kind = "list"
    THEN AllTrue([i \in 1..Len(data.items) |-> JSONStressLoader__validate_stress_entry(data.items[i])])
    ELSE JSONStressLoader__validate_stress_entry(Single(data))

JSONHydrationLoader__validate_hydration_entry(entry) ==
    AllFieldsIn(<<"date", "water_intake", "hydration_quality">>, entry)

JSONHydrationLoader_validate(data) ==
    IF data.kind = "list"
    THEN AllTrue([i \in 1..Len(data.items) |->
                     JSONHydrationLoader__validate_hydration_entry(data.items[i])])
    ELSE JSONHydrationLoader__validate_hydration_entry(Single(data))

----------------------------------------------------------------------------
(* CSV loaders.  pd.read_csv gives a DataFrame: its columns and its rows,  *)
(* each row a mapping from every column to a cell.                         *)

DataFrameV(columns, rows) == [kind |-> "dataframe", columns |-> columns, items |-> rows]

\* row[c] for each column c the conversion reads: KeyError on the first row
\* when one is missing
RowsReadable(df, needed) == df.items = << >> \/ needed \subseteq df.columns

\* `current` is the workout being filled, {} while there is none
RECURSIVE WorkoutRows(_, _, _)
WorkoutRows(rows, workouts, current) ==
    IF rows = << >>
    THEN IF current = EmptyDict THEN workouts ELSE Append(workouts, current)
    ELSE LET row == Head(rows)
             exercise_data == [name |-> row.Exercise,
                               weight |-> row.Weight,
                               sets |-> <<[set |-> 1, reps |-> row.Reps]>>]
         IN  IF current = EmptyDict
             THEN WorkoutRows(Tail(rows), workouts,
                              [date |-> row.Date, workout_type |-> "Unknown",
                               exercises |-> <<exercise_data>>])
             ELSE IF current.date # row.Date
             THEN WorkoutRows(Tail(rows), Append(workouts, current),
                              [date |-> row.Date, workout_type |-> "Unknown",
                               exercises |-> <<exercise_data>>])
             ELSE WorkoutRows(Tail(rows), workouts,
                              [current EXCEPT !.exercises = Append(@, exercise_data)])

CSVWorkoutLoader__convert_csv_to_workout_format(df) ==
    IF ~RowsReadable(df, {"Date", "Exercise", "Weight", "Reps", "Sets"})
    THEN Raise("KeyError")
    ELSE Ret(ListV(WorkoutRows(df.items, << >>, EmptyDict)))

RECURSIVE NutritionRows(_, _, _)
NutritionRows(rows, nutrition_entries, current) ==
    IF rows = << >>
    THEN IF current = EmptyDict THEN nutrition_entries ELSE Append(nutrition_entries, current)
    ELSE LET row == Head(rows)
             food_data == [name |-> row.Food, calories |-> row.Calories,
                           protein |-> row.Protein, carbs |-> row.Carbs, fat |-> row.Fat]
         IN  IF current = EmptyDict
             THEN NutritionRows(Tail(rows), nutrition_entries,
                                [date |-> row.Date, foods |-> <<food_data>>])
             ELSE IF current.date # row.Date
             THEN NutritionRows(Tail(rows), Append(nutrition_entries, current),
                                [date |-> row.Date, foods |-> <<food_data>>])
             ELSE NutritionRows(Tail(rows), nutrition_entries,
                                [current EXCEPT !.foods = Append(@, food_data)])

\* mutation: every row opens a record of its own
CSVNutritionLoader__convert_csv_to_nutrition_format_row_per_record(df) ==
    IF ~RowsReadable(df, {"Date", "Food", "Calories", "Protein", "Carbs", "Fat"})
    THEN Raise("KeyError")
    ELSE Ret(ListV([i \in 1..Len(df.items) |->
                      NutritionRows(<<df.items[i]>>, << >>, EmptyDict)[1]]))

CSVNutritionLoader__convert_csv_to_nutrition_format(df) ==
    IF ~RowsReadable(df, {"Date", "Food", "Calories", "Protein", "Carbs", "Fat"})
    THEN Raise("KeyError")
    ELSE Ret(ListV(NutritionRows(df.items, << >>, EmptyDict)))

CSVSleepLoader__convert_csv_to_sleep_format(df) ==
    IF ~RowsReadable(df, {"Date", "SleepHours", "SleepQuality"}) THEN Raise("KeyError")
    ELSE Ret(ListV([i \in 1..Len(df.items) |->
                      [date |-> df.items[i].Date,
                       sleep_hours |-> df.items[i].SleepHours,
                       sleep_quality |-> df.items[i].SleepQuality]]))

CSVStressLoader__convert_csv_to_stress_format(df) ==
    IF ~RowsReadable(df, {"Date", "StressLevel", "StressFactors"}) THEN Raise("KeyError")
    ELSE Ret(ListV([i \in 1..Len(df.items) |->
                      [date |-> df.items[i].Date,
                       stress_level |-> df.items[i].StressLevel,
                       stress_factors |-> df.items[i].StressFactors]]))

CSVHydrationLoader__convert_csv_to_hydration_format(df) ==
    IF ~RowsReadable(df, {"Date", "WaterIntake", "HydrationQuality"}) THEN Raise("KeyError")
    ELSE Ret(ListV([i \in 1..Len(df.items) |->
                      [date |-> df.items[i].Date,
                       water_intake |-> df.items[i].WaterIntake,
                       hydration_quality |-> df.items[i].HydrationQuality]]))

\* validate of a CSV loader: only a DataFrame with the required columns passes
CSVLoader_validate(data, required_columns) ==
    IF data.kind # "dataframe" THEN Ret(FALSE)
    ELSE Ret(required_columns \subseteq data.columns)

----------------------------------------------------------------------------
(* Loading a file.  A file is its suffix and its content: the document a   *)
(* JSON text parses to, the DataFrame a CSV text parses to, or garbled     *)
(* (missing or unparsable).  The files considered carry the content their  *)
(* suffix announces, or are garbled.                                       *)

Domains == {"workout", "nutrition", "sleep", "stress", "hydration"}

Garbled == [kind |-> "garbled", items |-> << >>]

\* file_extension.lower() on the suffixes considered
Lower(file_extension) ==
    CASE file_extension = ".JSON" -> ".json"
      [] file_extension = ".CSV" -> ".csv"
      [] file_extension = ".XML" -> ".xml"
      [] OTHER -> file_extension

\* mutation: a suffix no loader is registered for is read as JSON
DataLoaderFactory_get_loader_defaulting(file_extension) ==
    IF Lower(file_extension) = ".csv" THEN Ret("csv") ELSE Ret("json")

\* get_loader of DataLoaderFactory, NutritionLoaderFactory, SleepLoaderFactory,
\* StressLoaderFactory and HydrationLoaderFactory, which share one body
DataLoaderFactory_get_loader(file_extension) ==
    IF Lower(file_extension) = ".json" THEN Ret("json")
    ELSE IF Lower(file_extension) = ".csv" THEN Ret("csv")
    ELSE Raise("ValueError")

\* JSON*Loader.load: json.load of the opened file
JSONLoader_load(file) ==
    IF file.content.kind \in {"garbled", "dataframe"} THEN Raise("JSONDecodeError")
    ELSE Ret(file.content)

\* CSV*Loader.load: pd.read_csv, then the domain's conversion
CSVLoader_load(domain, file) ==
    IF file.content.kind # "dataframe" THEN Raise("ParserError")
    ELSE CASE domain = "workout" -> CSVWorkoutLoader__convert_csv_to_workout_format(file.content)
           [] domain = "nutrition" -> CSVNutritionLoader__convert_csv_to_nutrition_format(file.content)
           [] domain = "sleep" -> CSVSleepLoader__convert_csv_to_sleep_format(file.content)
           [] domain = "stress" -> CSVStressLoader__convert_csv_to_stress_format(file.content)
           [] domain = "hydration" -> CSVHydrationLoader__convert_csv_to_hydration_format(file.content)

\* loader.load(file_path) of the loader the factory returned
Loader_load(domain, loader, file) ==
    IF loader = "json" THEN JSONLoader_load(file) ELSE CSVLoader_load(domain, file)

JSONLoader_validate(domain, data) ==
    CASE domain = "workout" -> JSONWorkoutLoader_validate(data)
      [] domain = "nutrition" -> JSONNutritionLoader_validate(data)
      [] domain = "sleep" -> JSONSleepLoader_validate(data)
      [] domain = "stress" -> JSONStressLoader_validate(data)
      [] domain = "hydration" -> JSONHydrationLoader_validate(data)

RequiredColumns(domain) ==
    CASE domain = "workout" -> {"Date", "Exercise", "Weight", "Reps", "Sets"}
      [] domain = "nutrition" -> {"Date", "Food", "Calories", "Protein", "Carbs", "Fat"}
      [] domain = "sleep" -> {"Date", "SleepHours", "SleepQuality"}
      [] domain = "stress" -> {"Date", "StressLevel", "StressFactors"}
      [] domain = "hydration" -> {"Date", "WaterIntake", "HydrationQuality"}

\* loader.validate(data) of the loader the factory returned
Loader_validate(domain, loader, data) ==
    IF loader = "json" THEN JSONLoader_validate(domain, data)
    ELSE CSVLoader_validate(data, RequiredColumns(domain))

----------------------------------------------------------------------------
(* The loader specification: the loader classes used on their own.  A      *)
(* loader is obtained from its factory and asked to load a file, or a JSON *)
(* loader is asked to validate a document.                                 *)

\* the records of a domain that a table can carry: every field present,
\* every exercise done in sets of equal reps, no workout type recorded
Pushup == [name |-> "Pushup", weight |-> 0, sets |-> <<[set |-> 1, reps |-> 10]>>]
Row == [name |-> "Row", weight |-> 40,
        sets |-> <<[set |-> 1, reps |-> 10], [set |-> 2, reps |-> 10]>>]

TabularRecs(domain) ==
    CASE domain = "workout" ->
             [date : Dates, workout_type : {"Unknown"}, exercises : {<<Pushup>>, <<Pushup, Row>>}]
      [] domain = "nutrition" -> [date : Dates, foods : {<<Rice>>, <<Rice, Chicken>>}]
      [] domain = "sleep" -> {r \in SleepRecs : HasKey(r, "sleep_hours")}
      [] domain = "stress" -> {r \in StressRecs : HasKey(r, "stress_level")}
      [] domain = "hydration" -> {r \in HydrationRecs : HasKey(r, "water_intake")}

\* record lists a table can carry: for workouts and nutrition, adjacent
\* records are of different dates
TabularLists(domain) ==
    {s \in SeqUpTo(TabularRecs(domain), MaxLen) :
        domain \in {"workout", "nutrition"}
            => \A i \in 1..(Len(s) - 1) : s[i].date # s[i + 1].date}

\* the rows that carry one record
RowsOf(domain, r) ==
    CASE domain = "workout" ->
             [i \in 1..Len(r.exercises) |->
                 [Date |-> r.date, Exercise |-> r.exercises[i].name,
                  Weight |-> r.exercises[i].weight,
                  Reps |-> r.exercises[i].sets[1].reps,
                  Sets |-> Len(r.exercises[i].sets)]]
      [] domain = "nutrition" ->
             [i \in 1..Len(r.foods) |->
                 [Date |-> r.date, Food |-> r.foods[i].name,
                  Calories |-> r.foods[i].calories, Protein |-> r.foods[i].protein,
                  Carbs |-> r.foods[i].carbs, Fat |-> r.foods[i].fat]]
      [] domain = "sleep" ->
             <<[Date |-> r.date, SleepHours |-> r.sleep_hours, SleepQuality |-> r.sleep_quality]>>
      [] domain = "stress" ->
             <<[Date |-> r.date, StressLevel |-> r.stress_level, StressFactors |-> r.stress_factors]>>
      [] domain = "hydration" ->
             <<[Date |-> r.date, WaterIntake |-> r.water_intake,
                HydrationQuality |-> r.hydration_quality]>>

\* the table that carries a record list
RECURSIVE TableRows(_, _)
TableRows(domain, recs) ==
    IF recs = << >> THEN << >>
    ELSE RowsOf(domain, Head(recs)) \o TableRows(domain, Tail(recs))

TableOf(domain, recs) == DataFrameV(RequiredColumns(domain), TableRows(domain, recs))

\* the dates of the rows of a table, row by row: dates that recur next to
\* each other and dates that recur after another date
DatePatterns == {<<1, 2, 1>>, <<1, 1, 2, 1>>, <<2, 1, 1, 1, 2, 2>>}

\* the i-th row of a table of the domain, its cells telling the rows apart
RowAt(domain, date, i) ==
    CASE domain = "workout" ->
             [Date |-> date, Exercise |-> "Pushup", Weight |-> 10 * i, Reps |-> 10 + i, Sets |-> 1]
      [] domain = "nutrition" ->
             [Date |-> date, Food |-> "Rice", Calories |-> 100 * i, Protein |-> i,
              Carbs |-> 20 * i, Fat |-> 1]
      [] domain = "sleep" -> [Date |-> date, SleepHours |-> 60 + i, SleepQuality |-> 5]
      [] domain = "stress" -> [Date |-> date, StressLevel |-> i, StressFactors |-> "work"]
      [] domain = "hydration" -> [Date |-> date, WaterIntake |-> 20 + i, HydrationQuality |-> 5]

\* the tables over those date patterns
RunTables(domain) ==
    {DataFrameV(RequiredColumns(domain),
                [i \in 1..Len(dates) |-> RowAt(domain, dates[i], i)]) : dates \in DatePatterns}

\* the files of a domain: the same record lists as JSON and as CSV, tables
\* whose dates recur, a table lacking columns, a garbled file, under
\* several suffixes
FilesOf(domain) ==
    {[suffix |-> s, content |-> ListV(recs)] : s \in {".json", ".JSON"}, recs \in TabularLists(domain)}
    \cup {[suffix |-> ".csv", content |-> TableOf(domain, recs)] : recs \in TabularLists(domain)}
    \cup {[suffix |-> ".csv", content |-> t] : t \in RunTables(domain)}
    \cup {[suffix |-> ".CSV", content |-> DataFrameV({"Date"}, <<[Date |-> 1]>>)]}
    \cup {[suffix |-> s, content |-> Garbled] : s \in {".json", ".csv", ".xml", ".XML", ""}}

\* what may stand where a record of the domain is expected: a well-formed
\* record, records lacking a field or holding an ill-formed nested list,
\* and values that are not mappings
ElementsOf(domain) ==
    {NotAMapping(t) : t \in {"number", "string", "none"}}
    \cup CASE domain = "workout" ->
                  {[date |-> 1, exercises |-> <<Pushup>>],
                   [date |-> 1],
                   [date |-> 1, exercises |-> NotAList("string")],
                   [date |-> 1, exercises |-> <<NotAMapping("number")>>],
                   [date |-> 1, exercises |-> <<[name |-> "Row", weight |-> 40]>>],
                   [date |-> 1, exercises |-> <<[name |-> "Row", weight |-> 40,
                                                 sets |-> NotAList("number")]>>],
                   [date |-> 1, exercises |-> <<[name |-> "Row", weight |-> 40,
                                                 sets |-> <<NotAMapping("number")>>]>>],
                   [date |-> 1, exercises |-> <<[name |-> "Row", weight |-> 40,
                                                 sets |-> <<[set |-> 1]>>]>>]}
           [] domain = "nutrition" ->
                  {[date |-> 1, foods |-> <<Rice>>],
                   [date |-> 1],
                   [date |-> 1, foods |-> NotAList("string")],
                   [date |-> 1, foods |-> <<NotAMapping("number")>>],
                   [date |-> 1, foods |-> <<NotAMapping("string")>>],
                   [date |-> 1, foods |-> <<Water>>]}
           [] domain = "sleep" -> {[date |-> 1, sleep_hours |-> 75, sleep_quality |-> 8], [date |-> 1]}
           [] domain = "stress" ->
                  {[date |-> 1, stress_level |-> 3, stress_factors |-> "work"], [date |-> 1]}
           [] domain = "hydration" ->
                  {[date |-> 1, water_intake |-> 30, hydration_quality |-> 8], [date |-> 1]}

\* the documents a JSON loader may be asked to validate
DocumentsOf(domain) ==
    {ListV(s) : s \in SeqUpTo(ElementsOf(domain), MaxLen)}
    \cup {DictV(r) : r \in {e \in ElementsOf(domain) : IsMapping(e)}}
    \cup {NoneV, ScalarV("number"), ScalarV("string")}

\* <Domain>LoaderFactory.get_loader(suffix).load(file)
load(domain, file) ==
    /\ LET loader == DataLoaderFactory_get_loader(file.suffix)
       IN  Returns("loader.load", [domain |-> domain, file |-> file],
                   IF Raised(loader) THEN loader ELSE Loader_load(domain, loader.val, file))
    /\ UNCHANGED analyzerVars

\* JSON<Domain>Loader().validate(data)
validate(domain, data) ==
    /\ Returns("loader.validate", [domain |-> domain, data |-> data],
               JSONLoader_validate(domain, data))
    /\ UNCHANGED analyzerVars

InitLoaders ==
    /\ instance = "loaders"
    /\ InitAnalyzers
    /\ call = NoCall
    /\ ret = Ret(NoneV)
    /\ InitThreads
    /\ app = NoApp

NextLoaders ==
    \/ \E domain \in Domains : \E file \in FilesOf(domain) : load(domain, file)
    \/ \E domain \in Domains : \E data \in DocumentsOf(domain) : validate(domain, data)

SpecLoaders == InitLoaders /\ [][NextLoaders]_vars

\* the loaders used for loading alone: files of any domain are loaded one
\* after another
NextLoad == \E domain \in Domains : \E file \in FilesOf(domain) : load(domain, file)

SpecLoad == InitLoaders /\ [][NextLoad]_vars

----------------------------------------------------------------------------
(* GymApp: the command-line application object.  Its analyzers' data      *)
(* attributes are the analyzer variables; `app` holds its own fields.     *)

\* WorkoutMetrics(workout_data)
WorkoutMetrics___init__(data) == [workout_data |-> data]

GymApp___init__ ==
    [metrics |-> NoneV, workout_data |-> NoneV, nutrition_data |-> NoneV,
     sleep_data |-> NoneV, stress_data |-> NoneV, hydration_data |-> NoneV]

\* _print_loading_summary, for what it raises: the counts are taken, then
\* metrics.calculate_frequency_analysis() walks workout_data, and on a
\* single mapping it walks the keys and asks a string for .get
GymApp__print_loading_summary(data) ==
    IF data.kind = "list" THEN Ret(NoneV) ELSE Raise("AttributeError")

\* _print_<domain>_loading_summary of the other four, for what it raises:
\* the weekly averages are asked for when the data is truthy
GymApp__print_domain_loading_summary(domain, data) ==
    IF ~Truthy(data) THEN Ret(NoneV)
    ELSE CASE domain = "nutrition" -> NutritionAnalyzer_get_weekly_averages(data)
           [] domain = "sleep" -> SleepAnalyzer_get_weekly_averages(data)
           [] domain = "stress" -> StressAnalyzer_get_weekly_averages(data)
           [] domain = "hydration" -> HydrationAnalyzer_get_weekly_averages(data)

\* load_<domain>_data after loader.validate: a rejection returns False with
\* the data stored; otherwise the data is installed and the summary printed
GymApp_after_validate(domain, data, valid) ==
    IF Raised(valid) \/ ~valid.val
    THEN [stored |-> TRUE, data |-> data, installed |-> FALSE, result |-> FALSE]
    ELSE [stored |-> TRUE, data |-> data, installed |-> TRUE,
          result |-> IF domain = "workout"
                     THEN ~Raised(GymApp__print_loading_summary(data))
                     ELSE ~Raised(GymApp__print_domain_loading_summary(domain, data))]

\* load_<domain>_data after loader.load: self.<domain>_data = the loaded
\* data, then loader.validate of it
GymApp_after_load(domain, loader, data) ==
    IF Raised(data) THEN [stored |-> FALSE, installed |-> FALSE, result |-> FALSE]
    ELSE GymApp_after_validate(domain, data.val, Loader_validate(domain, loader, data.val))

\* load_<domain>_data after get_loader
GymApp_after_get_loader(domain, file, loader) ==
    IF Raised(loader) THEN [stored |-> FALSE, installed |-> FALSE, result |-> FALSE]
    ELSE GymApp_after_load(domain, loader.val, Loader_load(domain, loader.val, file))

\* the body of load_<domain>_data up to its return: whether the loaded data
\* was stored in the GymApp, whether it was installed in the analyzer, and
\* the value returned.  Every exception ends in `return False`.
GymApp_load_steps(domain, file) ==
    GymApp_after_get_loader(domain, file, DataLoaderFactory_get_loader(file.suffix))

AppReturns(op, arg, r) ==
    /\ call' = [op |-> op, arg |-> arg]
    /\ ret' = r
    /\ UNCHANGED <<instance, threadVars>>

\* the fields a load leaves in the GymApp
GymApp_fields(domain, steps) ==
    IF ~steps.stored THEN app
    ELSE CASE domain = "workout" ->
                  IF steps.installed
                  THEN [app EXCEPT !.workout_data = steps.data,
                                   !.metrics = WorkoutMetrics___init__(steps.data)]
                  ELSE [app EXCEPT !.workout_data = steps.data]
           [] domain = "nutrition" -> [app EXCEPT !.nutrition_data = steps.data]
           [] domain = "sleep" -> [app EXCEPT !.sleep_data = steps.data]
           [] domain = "stress" -> [app EXCEPT !.stress_data = steps.data]
           [] domain = "hydration" -> [app EXCEPT !.hydration_data = steps.data]

\* the data attribute a load leaves in the domain's analyzer
Installed(steps, before) == IF steps.installed THEN steps.data ELSE before

GymApp_load_workout_data(file) ==
    /\ app' = GymApp_fields("workout", GymApp_load_steps("workout", file))
    /\ workout_data' = Installed(GymApp_load_steps("workout", file), workout_data)
    /\ UNCHANGED <<nutrition_data, sleep_data, stress_data, hydration_data>>
    /\ AppReturns("load_workout_data", [domain |-> "workout", file |-> file],
                  Ret(GymApp_load_steps("workout", file).result))

GymApp_load_nutrition_data(file) ==
    /\ app' = GymApp_fields("nutrition", GymApp_load_steps("nutrition", file))
    /\ nutrition_data' = Installed(GymApp_load_steps("nutrition", file), nutrition_data)
    /\ UNCHANGED <<workout_data, sleep_data, stress_data, hydration_data>>
    /\ AppReturns("load_nutrition_data", [domain |-> "nutrition", file |-> file],
                  Ret(GymApp_load_steps("nutrition", file).result))

GymApp_load_sleep_data(file) ==
    /\ app' = GymApp_fields("sleep", GymApp_load_steps("sleep", file))
    /\ sleep_data' = Installed(GymApp_load_steps("sleep", file), sleep_data)
    /\ UNCHANGED <<workout_data, nutrition_data, stress_data, hydration_data>>
    /\ AppReturns("load_sleep_data", [domain |-> "sleep", file |-> file],
                  Ret(GymApp_load_steps("sleep", file).result))

GymApp_load_stress_data(file) ==
    /\ app' = GymApp_fields("stress", GymApp_load_steps("stress", file))
    /\ stress_data' = Installed(GymApp_load_steps("stress", file), stress_data)
    /\ UNCHANGED <<workout_data, nutrition_data, sleep_data, hydration_data>>
    /\ AppReturns("load_stress_data", [domain |-> "stress", file |-> file],
                  Ret(GymApp_load_steps("stress", file).result))

GymApp_load_hydration_data(file) ==
    /\ app' = GymApp_fields("hydration", GymApp_load_steps("hydration", file))
    /\ hydration_data' = Installed(GymApp_load_steps("hydration", file), hydration_data)
    /\ UNCHANGED <<workout_data, nutrition_data, sleep_data, stress_data>>
    /\ AppReturns("load_hydration_data", [domain |-> "hydration", file |-> file],
                  Ret(GymApp_load_steps("hydration", file).result))

\* the weekly averages analyze_workouts asks of a domain's analyzer when
\* the GymApp's own field for the domain is truthy; {} stands for no call
GymApp_context(stored, stage, data) ==
    IF Truthy(stored) THEN WeeklyAverages(stage, data) ELSE Ret(EmptyDict)

\* GymApp.analyze_workouts(): the four contexts in turn, then the workout
\* analyzer.  nutrition_context, sleep_context and stress_context start as
\* None; hydration_context is assigned only under its two conditions and is
\* read by the call whatever they were.
GymApp_analyze_workouts_result(upstream) ==
    LET nutrition == GymApp_context(app.nutrition_data, "nutrition", nutrition_data)
        sleep == GymApp_context(app.sleep_data, "sleep", sleep_data)
        stress == GymApp_context(app.stress_data, "stress", stress_data)
        hydration == GymApp_context(app.hydration_data, "hydration", hydration_data)
    IN  IF Raised(nutrition) THEN nutrition
        ELSE IF Raised(sleep) THEN sleep
        ELSE IF Raised(stress) THEN stress
        ELSE IF Raised(hydration) THEN hydration
        ELSE IF hydration.val = EmptyDict THEN Raise("UnboundLocalError")
        ELSE Ret(WorkoutAnalyzer_analyze_workouts(workout_data, upstream))

GymApp_analyze_workouts(upstream) ==
    /\ AppReturns("analyze_workouts", upstream, GymApp_analyze_workouts_result(upstream))
    /\ UNCHANGED <<app, analyzerVars>>

\* one complete record of each domain
GoodRecord(domain) ==
    CASE domain = "workout" ->
             [date |-> 1, workout_type |-> "Unknown", exercises |-> <<Pushup, Row>>]
      [] domain = "nutrition" -> [date |-> 1, foods |-> <<Rice, Chicken>>]
      [] domain = "sleep" -> [date |-> 1, sleep_hours |-> 75, sleep_quality |-> 8]
      [] domain = "stress" -> [date |-> 1, stress_level |-> 3, stress_factors |-> "work"]
      [] domain = "hydration" -> [date |-> 1, water_intake |-> 30, hydration_quality |-> 8]

\* the files given to the application: a JSON list of one complete record,
\* the same list under a suffix no loader is registered for, and a file
\* with no suffix that cannot be read; for workouts, nutrition and
\* hydration also a JSON list whose record lacks fields; for workouts and
\* nutrition also a table; for workouts also a
\* single JSON mapping, a JSON list whose element is a number, and files
\* that cannot be read
AppFiles(domain) ==
    {[suffix |-> ".json", content |-> ListV(<<GoodRecord(domain)>>)],
     [suffix |-> ".txt", content |-> ListV(<<GoodRecord(domain)>>)],
     [suffix |-> "", content |-> Garbled]}
    \cup (IF domain \in {"workout", "nutrition", "hydration"}
          THEN {[suffix |-> ".JSON", content |-> ListV(<<[date |-> 1]>>)]}
          ELSE {})
    \cup (IF domain \in {"workout", "nutrition"}
          THEN {[suffix |-> ".CSV", content |-> TableOf(domain, <<GoodRecord(domain)>>)]}
          ELSE {})
    \cup (IF domain = "workout"
          THEN {[suffix |-> ".json", content |-> DictV(GoodRecord(domain))],
                [suffix |-> ".json", content |-> ListV(<<NotAMapping("number")>>)],
                [suffix |-> ".json", content |-> Garbled],
                [suffix |-> ".XML", content |-> Garbled]}
          ELSE {})

InitApp ==
    /\ instance = "app"
    /\ InitAnalyzers
    /\ call = NoCall
    /\ ret = Ret(NoneV)
    /\ InitThreads
    /\ app = GymApp___init__

NextApp ==
    \/ \E file \in AppFiles("workout") : GymApp_load_workout_data(file)
    \/ \E file \in AppFiles("nutrition") : GymApp_load_nutrition_data(file)
    \/ \E file \in AppFiles("sleep") : GymApp_load_sleep_data(file)
    \/ \E file \in AppFiles("stress") : GymApp_load_stress_data(file)
    \/ \E file \in AppFiles("hydration") : GymApp_load_hydration_data(file)
    \/ \E upstream \in Upstreams : GymApp_analyze_workouts(upstream)

SpecApp == InitApp /\ [][NextApp]_vars

----------------------------------------------------------------------------
(* WorkoutMetrics: the statistics object built over a list of workouts.   *)
(* `app.metrics` is the object; its workout_data is a list, as its        *)
(* constructor declares.                                                   *)

\* the loop of calculate_fatigue_patterns over one workout's exercises
RECURSIVE FatigueExercises(_, _, _)
FatigueExercises(exercises, date, fatigue_data) ==
    IF exercises = << >> THEN fatigue_data
    ELSE LET exercise == Head(exercises)
             name == exercise.name
             sets == Get(exercise, "sets", << >>)
             set_reps == Column(sets, "reps", 0)
             entry == [date |-> date,
                       fatigue_drop |-> set_reps[1] - set_reps[Len(set_reps)],
                       set_reps |-> set_reps]
         IN  FatigueExercises(Tail(exercises), date,
                 IF Len(sets) < 2 THEN fatigue_data
                 ELSE IF name \in DOMAIN fatigue_data
                 THEN [fatigue_data EXCEPT ![name] = Append(@, entry)]
                 ELSE fatigue_data @@ (name :> <<entry>>))

\* its loop over the workouts
RECURSIVE FatigueWorkouts(_, _)
FatigueWorkouts(workouts, fatigue_data) ==
    IF workouts = << >> THEN fatigue_data
    ELSE FatigueWorkouts(Tail(workouts),
             FatigueExercises(Get(Head(workouts), "exercises", << >>),
                              Get(Head(workouts), "date", NoDate), fatigue_data))

\* mutation: the exercise's key is created before its sets are counted
WorkoutMetrics_calculate_fatigue_patterns_keyed_first(data) ==
    LET fatigue_data == FatigueWorkouts(data.items, EmptyDict)
        names == UNION {{data.items[i].exercises[j].name :
                            j \in 1..Len(data.items[i].exercises)} :
                        i \in 1..Len(data.items)}
    IN  [n \in names |-> IF n \in DOMAIN fatigue_data THEN fatigue_data[n] ELSE << >>]

WorkoutMetrics_calculate_fatigue_patterns(data) ==
    FatigueWorkouts(data.items, EmptyDict)

\* dates.sort(): insertion of a date into an ascending list
RECURSIVE Inserted(_, _)
Inserted(sorted, d) ==
    IF sorted = << >> THEN <<d>>
    ELSE IF d < Head(sorted) THEN <<d>> \o sorted
    ELSE <<Head(sorted)>> \o Inserted(Tail(sorted), d)

RECURSIVE Sorted(_)
Sorted(ds) == IF ds = << >> THEN << >> ELSE Inserted(Sorted(Tail(ds)), Head(ds))

\* [... for w in workout_data if w.get('date')]: the dates of the workouts
\* that have one, as day numbers (strptime of a well-formed date)
RECURSIVE DatesOf(_)
DatesOf(workouts) ==
    IF workouts = << >> THEN << >>
    ELSE (IF Get(Head(workouts), "date", NoDate) # NoDate
          THEN <<Head(workouts).date>> ELSE << >>) \o DatesOf(Tail(workouts))

\* (dates[i] - dates[i-1]).days for i in range(1, len(dates))
Gaps(dates) == [i \in 1..(Len(dates) - 1) |-> dates[i + 1] - dates[i]]

\* a quotient sum / count, kept as its two terms
Quotient(sum, count) == [sum |-> sum, over |-> count]

\* mutation: the gaps are taken in load order
WorkoutMetrics_calculate_frequency_analysis_unsorted(data) ==
    LET dates == DatesOf(data.items)
    IN  IF Len(dates) < 2
        THEN [avg_days_between |-> Quotient(0, 1), total_sessions |-> Len(dates)]
        ELSE [avg_days_between |-> Quotient(SumSeq(Gaps(dates)), Len(Gaps(dates))),
              total_sessions |-> Len(dates),
              date_range |-> [from |-> Sorted(dates)[1], to |-> Sorted(dates)[Len(dates)]]]

WorkoutMetrics_calculate_frequency_analysis(data) ==
    LET dates == Sorted(DatesOf(data.items))
    IN  IF Len(dates) < 2
        THEN [avg_days_between |-> Quotient(0, 1), total_sessions |-> Len(dates)]
        ELSE [avg_days_between |-> Quotient(SumSeq(Gaps(dates)), Len(Gaps(dates))),
              total_sessions |-> Len(dates),
              date_range |-> [from |-> dates[1], to |-> dates[Len(dates)]]]

\* the loop of calculate_volume_progression over one workout's exercises
RECURSIVE VolumeExercises(_, _, _)
VolumeExercises(exercises, date, volume_data) ==
    IF exercises = << >> THEN volume_data
    ELSE LET exercise == Head(exercises)
             name == exercise.name
             weight == Get(exercise, "weight", 0)
             total_reps == SumSeq(Column(Get(exercise, "sets", << >>), "reps", 0))
             entry == [date |-> date, volume |-> weight * total_reps,
                       weight |-> weight, total_reps |-> total_reps]
         IN  VolumeExercises(Tail(exercises), date,
                 IF name \in DOMAIN volume_data
                 THEN [volume_data EXCEPT ![name] = Append(@, entry)]
                 ELSE volume_data @@ (name :> <<entry>>))

\* its loop over the workouts
RECURSIVE VolumeWorkouts(_, _)
VolumeWorkouts(workouts, volume_data) ==
    IF workouts = << >> THEN volume_data
    ELSE VolumeWorkouts(Tail(workouts),
             VolumeExercises(Get(Head(workouts), "exercises", << >>),
                             Get(Head(workouts), "date", NoDate), volume_data))

WorkoutMetrics_calculate_volume_progression(data) ==
    VolumeWorkouts(data.items, EmptyDict)

\* the loop of WorkoutAnalyzer._calculate_workout_volume
RECURSIVE WorkoutVolumeLoop(_, _)
WorkoutVolumeLoop(exercises, total_volume) ==
    IF exercises = << >> THEN total_volume
    ELSE WorkoutVolumeLoop(Tail(exercises),
             total_volume + Get(Head(exercises), "weight", 0)
                            * SumSeq(Column(Get(Head(exercises), "sets", << >>), "reps", 0)))

\* mutation: only the first set of an exercise is counted
WorkoutAnalyzer__calculate_workout_volume_first_set(workout) ==
    SumSeq([j \in 1..Len(Get(workout, "exercises", << >>)) |->
               LET exercise == workout.exercises[j]
                   reps == Column(Get(exercise, "sets", << >>), "reps", 0)
               IN  Get(exercise, "weight", 0) * (IF reps = << >> THEN 0 ELSE reps[1])])

WorkoutAnalyzer__calculate_workout_volume(workout) ==
    WorkoutVolumeLoop(Get(workout, "exercises", << >>), 0)

\* JointAnalyzer._get_workout_trends: the last seven workouts, the volume
\* of each added up set by set
JointAnalyzer__get_workout_trends(wdata) ==
    IF ~Truthy(wdata) THEN EmptyDict
    ELSE LET ws == LastN(Entries(wdata), WeekWindow)
         IN  [dates |-> Column(ws, "date", NoDate),
              workout_types |-> Column(ws, "workout_type", "Unknown"),
              total_volume |-> [i \in 1..Len(ws) |-> ExercisesVolume(Get(ws[i], "exercises", << >>))],
              exercise_count |-> [i \in 1..Len(ws) |-> Len(Get(ws[i], "exercises", << >>))]]

\* exercises of three sets, of no set, and a second bench press whose last
\* set has no rep count
Dip == [name |-> "Dip", weight |-> 20,
        sets |-> <<[set |-> 1, reps |-> 8], [set |-> 2, reps |-> 10], [set |-> 3, reps |-> 6]>>]
Plank == [name |-> "Plank", weight |-> 0, sets |-> << >>]
Burnout == [name |-> "Bench", weight |-> 40, sets |-> <<[set |-> 1, reps |-> 12], [set |-> 2]>>]

\* what a session may list: exercises of one, two and three sets, one of no
\* set, and the same exercise twice
ExerciseLists ==
    {<<Bench>>, <<Pushup>>, <<Pushup, Dip>>, <<Dip, Bench>>, <<Bench, Burnout>>, <<Plank, Row>>}

\* a workout per date and exercise list, and a workout that has no date
MetricWorkouts ==
    [date : Dates, workout_type : {"Push"}, exercises : ExerciseLists]
        \cup {[workout_type |-> "Pull", exercises |-> <<Row>>]}

\* longer histories, out of date order and with a date that recurs
LongHistories ==
    {[i \in 1..Len(dates) |-> [date |-> dates[i], workout_type |-> "Legs", exercises |-> <<Squat>>]] :
        dates \in {<<5, 1, 2>>, <<1, 8, 4, 4>>, <<1, 2, 3, 4, 5, 6, 7, 8>>}}

\* the workout lists a metrics object is built over
MetricLists == SeqUpTo(MetricWorkouts, MaxLen) \cup LongHistories

\* metrics.calculate_fatigue_patterns()
calculate_fatigue_patterns ==
    /\ Returns("calculate_fatigue_patterns", 0,
               Ret(WorkoutMetrics_calculate_fatigue_patterns(app.metrics.workout_data)))
    /\ UNCHANGED analyzerVars

\* metrics.calculate_frequency_analysis()
calculate_frequency_analysis ==
    /\ Returns("calculate_frequency_analysis", 0,
               Ret(WorkoutMetrics_calculate_frequency_analysis(app.metrics.workout_data)))
    /\ UNCHANGED analyzerVars

\* metrics.calculate_volume_progression()
calculate_volume_progression ==
    /\ Returns("calculate_volume_progression", 0,
               Ret(WorkoutMetrics_calculate_volume_progression(app.metrics.workout_data)))
    /\ UNCHANGED analyzerVars

\* analyzer._calculate_workout_volume(workout) of the i-th workout held
calculate_workout_volume(i) ==
    /\ workout_data.kind = "list"
    /\ i \in 1..Len(workout_data.items)
    /\ Returns("_calculate_workout_volume", i,
               Ret(WorkoutAnalyzer__calculate_workout_volume(workout_data.items[i])))
    /\ UNCHANGED analyzerVars

\* comprehensive_analyzer._get_workout_trends()
comprehensive_get_workout_trends ==
    /\ Returns("comprehensive._get_workout_trends", 0,
               Ret(ComprehensiveAnalyzer__get_workout_trends(workout_data)))
    /\ UNCHANGED analyzerVars

\* joint_analyzer._get_workout_trends()
joint_get_workout_trends ==
    /\ Returns("joint._get_workout_trends", 0,
               Ret(JointAnalyzer__get_workout_trends(workout_data)))
    /\ UNCHANGED analyzerVars

\* the longest workout list considered
MaxHistory == WeekWindow + 1

\* a list of workouts is held by the workout analyzer, on which the
\* comprehensive and joint analyzers draw, and by the metrics object built
\* over it: metrics = WorkoutMetrics(analyzer.workout_data)
InitMetrics ==
    /\ instance = "metrics"
    /\ nutrition_data = NoneV
    /\ sleep_data = NoneV
    /\ stress_data = NoneV
    /\ hydration_data = NoneV
    /\ call = NoCall
    /\ ret = Ret(NoneV)
    /\ InitThreads
    /\ \E workouts \in MetricLists :
          /\ workout_data = ListV(workouts)
          /\ app = [metrics |-> WorkoutMetrics___init__(ListV(workouts))]

NextMetrics ==
    \/ calculate_fatigue_patterns
    \/ calculate_frequency_analysis
    \/ calculate_volume_progression
    \/ \E i \in 1..MaxHistory : calculate_workout_volume(i)
    \/ comprehensive_get_workout_trends
    \/ joint_get_workout_trends

SpecMetrics == InitMetrics /\ [][NextMetrics]_vars

----------------------------------------------------------------------------
(* The joint specification: a workout analyzer and a nutrition analyzer    *)
(* are constructed empty, wired into one JointAnalyzer, loaded in any      *)
(* order and queried for the weekly joint analysis.                        *)

\* the conditional expression that labels a series in
\* _analyze_weekly_correlation
TrendLabel(xs) ==
    IF Len(xs) >= 2 /\ Last(xs) > Previous(xs) THEN "increasing"
    ELSE IF Len(xs) >= 2 /\ Last(xs) = Previous(xs) THEN "stable"
    ELSE "decreasing"

\* an empty trends mapping is falsy; a non-empty one has all its keys
JointAnalyzer__analyze_weekly_correlation(workout_trends, nutrition_trends) ==
    IF workout_trends = EmptyDict \/ nutrition_trends = EmptyDict THEN EmptyDict
    ELSE [insights |->
              IF Len(workout_trends.total_volume) >= 2 /\ Len(nutrition_trends.calories) >= 2
              THEN IF /\ SumSeq(workout_trends.total_volume) > 8000 * Len(workout_trends.total_volume)
                      /\ SumSeq(nutrition_trends.calories) < 2500 * Len(nutrition_trends.calories)
                   THEN <<"High workout volume with low calorie intake may lead to overtraining">>
                   ELSE IF /\ SumSeq(workout_trends.total_volume) < 4000 * Len(workout_trends.total_volume)
                           /\ SumSeq(nutrition_trends.calories) > 3000 * Len(nutrition_trends.calories)
                   THEN <<"Low workout volume with high calorie intake may lead to weight gain">>
                   ELSE << >>
              ELSE << >>,
          workout_volume_trend |-> TrendLabel(workout_trends.total_volume),
          nutrition_trend |-> TrendLabel(nutrition_trends.calories)]

JointAnalyzer__generate_weekly_recommendations(workout_trends, nutrition_trends) ==
    LET correlation == JointAnalyzer__analyze_weekly_correlation(workout_trends, nutrition_trends)
    IN  Triggered(<<
            <<Get(correlation, "workout_volume_trend", "") = "increasing",
              "Gradually increase nutrition to support increasing workout volume">>,
            <<Get(correlation, "nutrition_trend", "") = "decreasing"
                 /\ Get(correlation, "workout_volume_trend", "") = "stable",
              "Maintain consistent nutrition to support workout performance">> >>)

JointAnalyzer_get_weekly_joint_analysis(wdata, ndata) ==
    LET workout_trends == JointAnalyzer__get_workout_trends(wdata)
        nutrition_trends == NutritionAnalyzer_get_macro_trends(ndata, WeekWindow)
    IN  [workout_trends |-> workout_trends,
         nutrition_trends |-> nutrition_trends,
         correlation_insights |->
            JointAnalyzer__analyze_weekly_correlation(workout_trends, nutrition_trends),
         weekly_recommendations |->
            JointAnalyzer__generate_weekly_recommendations(workout_trends, nutrition_trends)]

\* joint_analyzer.get_weekly_joint_analysis()
get_weekly_joint_analysis ==
    /\ Returns("get_weekly_joint_analysis", 0,
               Ret(JointAnalyzer_get_weekly_joint_analysis(workout_data, nutrition_data)))
    /\ UNCHANGED analyzerVars

\* the nutrition scenarios, and two days of falling and of equal calories
JointNutrition ==
    ScenarioNutrition
        \cup {ListV(<<[date |-> 1, foods |-> <<Shake, Feast>>], [date |-> MaxDate, foods |-> <<Rice>>]>>),
              ListV(<<[date |-> 1, foods |-> <<Rice>>], [date |-> MaxDate, foods |-> <<Rice>>]>>)}

InitJoint ==
    /\ instance = "joint"
    /\ InitAnalyzers
    /\ call = NoCall
    /\ ret = Ret(NoneV)
    /\ InitThreads
    /\ app = NoApp

NextJoint ==
    \/ \E data \in ScenarioWorkouts : set_workout_data(data)
    \/ \E data \in JointNutrition : load_nutrition_data(data)
    \/ get_weekly_joint_analysis

SpecJoint == InitJoint /\ [][NextJoint]_vars

----------------------------------------------------------------------------
(* Properties of the single analyzers (specification Spec) *)

\* the data attribute of the analyzer object under analysis
InstanceData ==
    CASE instance = "nutrition" -> nutrition_data
      [] instance = "sleep" -> sleep_data
      [] instance = "stress" -> stress_data
      [] instance = "hydration" -> hydration_data
      [] OTHER -> NoneV

\* the records the analyzer holds, in loaded order
InstanceRecords == Entries(InstanceData)

\* the metric keys of a domain's records and the key of its trend array
MetricKeys ==
    CASE instance = "sleep" -> {<<"sleep_hours", "sleep_hours">>, <<"sleep_quality", "sleep_quality">>}
      [] instance = "stress" -> {<<"stress_level", "stress_levels">>}
      [] instance = "hydration" -> {<<"water_intake", "water_intake">>, <<"hydration_quality", "hydration_quality">>}
      [] OTHER -> {}

\* the last w records of a list, by position
LastRecords(xs, w) ==
    LET n == Len(xs)
        k == IF w < n THEN w ELSE n
    IN  [i \in 1..k |-> xs[n - k + i]]

\* C6: get_weekly_averages() of every domain analyzer returns an empty
\* mapping and raises nothing when the analyzer holds no records, whether
\* nothing was ever loaded or an empty list was loaded.
C6_EmptyAveragesNeverRaise ==
    (call.op = "get_weekly_averages" /\ InstanceRecords = << >>)
        => ret = Ret(EmptyDict)

\* C8: for the sleep, stress and hydration analyzers, every loaded record
\* list and every window w >= 0, get_trend(w) returns arrays of one common
\* length, that length is at most w, and the entries are those of the last
\* w records in loaded order.
C8_TrendWithinWindow ==
    (call.op = "get_trend" /\ instance # "nutrition" /\ Truthy(InstanceData))
        => LET t == ret.val
               last == LastRecords(InstanceRecords, call.arg)
           IN  /\ ~Raised(ret)
               /\ Len(t.dates) <= call.arg
               /\ t.dates = Column(last, "date", NoDate)
               /\ \A m \in MetricKeys :
                     /\ Len(t[m[2]]) = Len(t.dates)
                     /\ \A i \in 1..Len(last) : t[m[2]][i] = Get(last[i], m[1], 0)

\* v is the mean total / n rounded to the nearest integer (either way on a tie)
IsRoundedMean(v, total, n) ==
    LET diff == v * n - total
    IN  2 * (IF diff < 0 THEN 0 - diff ELSE diff) <= n

\* a nutrition record's total of one macro over its foods
MacroOf(rec, k) == SumSeq(Column(Get(rec, "foods", << >>), k, 0))

\* C9: with n >= 1 records loaded, get_weekly_averages() returns for each
\* metric the mean over the last min(n, 7) records in list order, rounded
\* to one decimal (calories to an integer).
C9_AveragesAreWindowMeans ==
    (call.op = "get_weekly_averages" /\ Len(InstanceRecords) >= 1)
        => LET w == LastRecords(InstanceRecords, WeekWindow)
               n == Len(w)
               a == ret.val
               Total(k) == SumSeq(Column(w, k, 0))
               Macro(k) == SumSeq([i \in 1..n |-> MacroOf(w[i], k)])
           IN  /\ ~Raised(ret)
               /\ instance = "sleep" =>
                     /\ DOMAIN a = {"avg_sleep_hours", "avg_sleep_quality"}
                     /\ IsRoundedMean(a.avg_sleep_hours, Total("sleep_hours"), n)
                     /\ IsRoundedMean(a.avg_sleep_quality, 10 * Total("sleep_quality"), n)
               /\ instance = "stress" =>
                     /\ DOMAIN a = {"avg_stress_level"}
                     /\ IsRoundedMean(a.avg_stress_level, 10 * Total("stress_level"), n)
               /\ instance = "hydration" =>
                     /\ DOMAIN a = {"avg_water_intake", "avg_hydration_quality"}
                     /\ IsRoundedMean(a.avg_water_intake, Total("water_intake"), n)
                     /\ IsRoundedMean(a.avg_hydration_quality, 10 * Total("hydration_quality"), n)
               /\ instance = "nutrition" =>
                     /\ DOMAIN a = {"avg_calories", "avg_protein", "avg_carbs", "avg_fat"}
                     /\ IsRoundedMean(a.avg_calories, Macro("calories"), n)
                     /\ IsRoundedMean(a.avg_protein, 10 * Macro("protein"), n)
                     /\ IsRoundedMean(a.avg_carbs, 10 * Macro("carbs"), n)
                     /\ IsRoundedMean(a.avg_fat, 10 * Macro("fat"), n)

\* C9 restricted to the sleep, stress and hydration analyzers
AveragesAreWindowMeansOutsideNutrition == instance # "nutrition" => C9_AveragesAreWindowMeans

\* C10: get_daily(date) of the sleep, stress and hydration analyzers returns
\* the first record in loaded order whose date is the argument, and an empty
\* mapping (never an error) when no record has that date or nothing is loaded.
C10_DailyFirstMatch ==
    (call.op = "get_daily" /\ instance # "nutrition")
        => LET es == InstanceRecords
               hits == {i \in 1..Len(es) : Get(es[i], "date", NoDate) = call.arg}
           IN  /\ ~Raised(ret)
               /\ hits = {} => ret.val = EmptyDict
               /\ hits # {} => \E i \in hits :
                                 /\ \A j \in 1..(i - 1) : j \notin hits
                                 /\ ret.val = es[i]

\* C10 witness: the date is held by two different records, the first of
\* which was returned.
C10_Witness ==
    /\ call.op = "get_daily"
    /\ instance # "nutrition"
    /\ Len(InstanceRecords) = 2
    /\ InstanceRecords[1] # InstanceRecords[2]
    /\ Get(InstanceRecords[1], "date", NoDate) = call.arg
    /\ Get(InstanceRecords[2], "date", NoDate) = call.arg
    /\ ret.val = InstanceRecords[1]

QueryOps == {"get_daily", "get_trend", "get_weekly_averages"}

\* C11: a query (get_daily, get_trend, get_weekly_averages) leaves every
\* analyzer's loaded records unchanged, and a query that directly follows
\* the same query with the same argument has the same outcome.
C11_QueriesAreIdempotent ==
    [][call'.op \in QueryOps
          => /\ analyzerVars' = analyzerVars
             /\ (call.op = call'.op /\ call.arg = call'.arg) => ret' = ret]_vars

\* C11 witness: a daily lookup found a record in a two-record list, which is
\* still loaded.
C11_Witness ==
    /\ call.op = "get_daily"
    /\ Len(InstanceRecords) = 2
    /\ ~Raised(ret)
    /\ ret.val # EmptyDict

\* C12: after a load the analyzer holds exactly the value just passed,
\* whatever it held before: the last load wins, nothing of an earlier load
\* remains, and loading the same value again changes nothing.
C12_LoadReplaces == call.op = "load" => InstanceData = call.arg

\* C12 witness: a one-record list was loaded into an analyzer and is all it
\* holds.
C12_Witness ==
    /\ call.op = "load"
    /\ call.arg.kind = "list"
    /\ Len(call.arg.items) = 1
    /\ InstanceRecords = call.arg.items

\* C20: get_daily_macros(date) returns calories, protein, carbs and fat as
\* the sums over the foods of the first record with that date, a food
\* lacking a field counting 0; it returns {} when no record has the date or
\* that record lists no food.
C20_DailyMacrosAreFoodSums ==
    (call.op = "get_daily" /\ instance = "nutrition")
        => LET es == InstanceRecords
               hits == {i \in 1..Len(es) : Get(es[i], "date", NoDate) = call.arg}
               first == CHOOSE i \in hits : \A j \in hits : i <= j
           IN  /\ ~Raised(ret)
               /\ IF hits = {} \/ Get(es[first], "foods", << >>) = << >>
                  THEN ret.val = EmptyDict
                  ELSE \A k \in {"calories", "protein", "carbs", "fat"} :
                          /\ HasKey(ret.val, k)
                          /\ ret.val[k] = MacroOf(es[first], k)

\* C20 witness: the date is held by two records; the totals returned are
\* those of the first, which lists rice and chicken (500 kcal, 45 g protein),
\* not those of the second, whose only food has no macro fields.
C20_Witness ==
    /\ call.op = "get_daily"
    /\ instance = "nutrition"
    /\ Len(InstanceRecords) = 2
    /\ InstanceRecords[1] = [date |-> call.arg, foods |-> <<Rice, Chicken>>]
    /\ InstanceRecords[2] = [date |-> call.arg, foods |-> <<Water>>]
    /\ ret.val.calories = 500
    /\ ret.val.protein = 45

MacroKeys == {"calories", "protein", "carbs", "fat"}

\* C28: get_macro_trends(days), days >= 1, has one entry for each of the
\* last `days` nutrition records, carrying that record's own date and the
\* totals of that record's own foods, also when two records share a date
\* or a record lists no food.
C28_OneEntryPerWindowRecord ==
    (call.op = "get_trend" /\ instance = "nutrition" /\ call.arg >= 1
        /\ Truthy(InstanceData))
        => LET t == ret.val
               last == LastRecords(InstanceRecords, call.arg)
           IN  /\ t.dates = Column(last, "date", NoDate)
               /\ \A k \in MacroKeys :
                     /\ Len(t[k]) = Len(last)
                     /\ \A i \in 1..Len(last) : t[k][i] = MacroOf(last[i], k)

\* the records of the window that share no date with an earlier loaded
\* record and list some food do get their own entries
MacroTrendsOfDistinctFedRecords ==
    (call.op = "get_trend" /\ instance = "nutrition" /\ call.arg >= 1
        /\ Truthy(InstanceData)
        /\ \A i \in 1..Len(InstanceRecords) :
              /\ Get(InstanceRecords[i], "foods", << >>) # << >>
              /\ \A j \in 1..(i - 1) :
                    Get(InstanceRecords[j], "date", NoDate)
                        # Get(InstanceRecords[i], "date", NoDate))
        => LET t == ret.val
               last == LastRecords(InstanceRecords, call.arg)
           IN  /\ t.dates = Column(last, "date", NoDate)
               /\ \A k \in MacroKeys :
                     /\ Len(t[k]) = Len(last)
                     /\ \A i \in 1..Len(last) : t[k][i] = MacroOf(last[i], k)

----------------------------------------------------------------------------
(* Properties of the comprehensive analyzer (specification                 *)
(* SpecComprehensive)                                                      *)

IsDaily == call.op = "get_daily_comprehensive_analysis"

\* a domain holds a record for the date
HasRecordFor(data, date) ==
    \E i \in 1..Len(Entries(data)) : Get(Entries(data)[i], "date", NoDate) = date

\* the nutrition analyzer's record for the date (the first one) lists food
HasFoodFor(data, date) ==
    \E i \in 1..Len(Entries(data)) :
        /\ Get(Entries(data)[i], "date", NoDate) = date
        /\ \A j \in 1..(i - 1) : Get(Entries(data)[j], "date", NoDate) # date
        /\ Get(Entries(data)[i], "foods", << >>) # << >>

\* the domains that hold a non-empty record for the date
DomainsWithRecord(date) ==
       {d \in {"workout"} : HasRecordFor(workout_data, date)}
  \cup {d \in {"nutrition"} : HasFoodFor(nutrition_data, date)}
  \cup {d \in {"sleep"} : HasRecordFor(sleep_data, date)}
  \cup {d \in {"stress"} : HasRecordFor(stress_data, date)}
  \cup {d \in {"hydration"} : HasRecordFor(hydration_data, date)}

FiveDomains == {"workout", "nutrition", "sleep", "stress", "hydration"}

\* C3: the daily analysis computes recovery_score, performance_factors and
\* recommendations exactly when all five domains have a non-empty record for
\* the date; with any domain missing the three fields are 0, [] and [].
C3_AllFiveOrDefaults ==
    IsDaily =>
        LET a == ret.val IN
        IF DomainsWithRecord(call.arg) = FiveDomains
        THEN /\ a.recovery_score =
                    ComprehensiveAnalyzer__calculate_recovery_score(a.nutrition, a.sleep, a.stress, a.hydration)
             /\ a.performance_factors =
                    ComprehensiveAnalyzer__analyze_performance_factors(a.workout, a.nutrition, a.sleep, a.stress, a.hydration)
             /\ a.recommendations =
                    ComprehensiveAnalyzer__generate_comprehensive_recommendations(a.workout, a.nutrition, a.sleep, a.stress, a.hydration)
        ELSE /\ a.recovery_score = 0
             /\ a.performance_factors = << >>
             /\ a.recommendations = << >>

\* C3 witness: four domains have a record for the date, the workout domain
\* has none, and the three fields were left at their defaults.
C3_Witness ==
    /\ IsDaily
    /\ DomainsWithRecord(call.arg) = FiveDomains \ {"workout"}
    /\ ret.val.recovery_score = 0
    /\ ret.val.performance_factors = << >>
    /\ ret.val.recommendations = << >>
    /\ ret.val.sleep.sleep_hours = 60

\* the seven recovery conditions that hold in a daily analysis
ConditionsMet(a) ==
       {c \in {"protein"} : HasKey(a.nutrition, "protein") /\ a.nutrition.protein >= 120}
  \cup {c \in {"calories"} : HasKey(a.nutrition, "calories") /\ a.nutrition.calories >= 2000}
  \cup {c \in {"sleep_hours"} : HasKey(a.sleep, "sleep_hours") /\ a.sleep.sleep_hours >= 70}
  \cup {c \in {"sleep_quality"} : HasKey(a.sleep, "sleep_quality") /\ a.sleep.sleep_quality >= 7}
  \cup {c \in {"stress_level"} : HasKey(a.stress, "stress_level") /\ a.stress.stress_level <= 5}
  \cup {c \in {"water_intake"} : HasKey(a.hydration, "water_intake") /\ a.hydration.water_intake >= 25}
  \cup {c \in {"hydration_quality"} : HasKey(a.hydration, "hydration_quality") /\ a.hydration.hydration_quality >= 7}

\* C4: with all five domains present, recovery_score is the number of the
\* seven conditions that hold, an integer in 0..7.
C4_ScoreCountsConditions ==
    (IsDaily /\ DomainsWithRecord(call.arg) = FiveDomains)
        => /\ ret.val.recovery_score = Cardinality(ConditionsMet(ret.val))
           /\ ret.val.recovery_score \in 0..7

\* C4 witness: all five present, good sleep hours but poor sleep quality,
\* three conditions met in all.
C4_Witness ==
    /\ IsDaily
    /\ DomainsWithRecord(call.arg) = FiveDomains
    /\ ret.val.sleep.sleep_hours = 75
    /\ ret.val.sleep.sleep_quality = 5
    /\ ret.val.recovery_score = 3

\* values an input is raised or lowered to
Levels == {0, 3, 5, 6, 7, 8, 10, 20, 25, 30, 60, 70, 75, 100, 120, 130, 2000, 2100}

\* the score of a daily analysis after one input is set to v
ScoreWith(a, input, v) ==
    ComprehensiveAnalyzer__calculate_recovery_score(
        IF input \in {"protein", "calories"} THEN [a.nutrition EXCEPT ![input] = v] ELSE a.nutrition,
        IF input \in {"sleep_hours", "sleep_quality"} THEN [a.sleep EXCEPT ![input] = v] ELSE a.sleep,
        IF input = "stress_level" THEN [a.stress EXCEPT ![input] = v] ELSE a.stress,
        IF input \in {"water_intake", "hydration_quality"} THEN [a.hydration EXCEPT ![input] = v] ELSE a.hydration)

\* the value of an input in a daily analysis
InputOf(a, input) ==
    CASE input \in {"protein", "calories"} -> a.nutrition[input]
      [] input \in {"sleep_hours", "sleep_quality"} -> a.sleep[input]
      [] input = "stress_level" -> a.stress[input]
      [] OTHER -> a.hydration[input]

\* the inputs a daily analysis carries
InputsOf(a) ==
    {"protein", "calories"}
       \cup {k \in {"sleep_hours", "sleep_quality"} : HasKey(a.sleep, k)}
       \cup {k \in {"stress_level"} : HasKey(a.stress, k)}
       \cup {k \in {"water_intake", "hydration_quality"} : HasKey(a.hydration, k)}

\* raising one input, the others fixed, never lowers the score
NonDecreasingIn(a, input) ==
    \A v \in Levels : v > InputOf(a, input) => ScoreWith(a, input, v) >= a.recovery_score

\* raising one input, the others fixed, never raises the score
NonIncreasingIn(a, input) ==
    \A v \in Levels : v > InputOf(a, input) => ScoreWith(a, input, v) <= a.recovery_score

\* C5 as stated: recovery_score is non-decreasing in each of its seven
\* inputs, stress_level included.
C5_MonotoneInAllSeven ==
    (IsDaily /\ DomainsWithRecord(call.arg) = FiveDomains)
        => \A input \in InputsOf(ret.val) : NonDecreasingIn(ret.val, input)

\* C5 amended: recovery_score is non-decreasing in protein, calories,
\* sleep_hours, sleep_quality, water_intake and hydration_quality, and
\* non-increasing in stress_level; it stays within 0..7.
C5_MonotoneStressReversed ==
    (IsDaily /\ DomainsWithRecord(call.arg) = FiveDomains)
        => /\ \A input \in InputsOf(ret.val) \ {"stress_level"} : NonDecreasingIn(ret.val, input)
           /\ HasKey(ret.val.stress, "stress_level") => NonIncreasingIn(ret.val, "stress_level")
           /\ ret.val.recovery_score \in 0..7

\* C5 witness: all five present with low stress; raising stress alone costs
\* a point and raising protein alone gains one.
C5_Witness ==
    /\ IsDaily
    /\ DomainsWithRecord(call.arg) = FiveDomains
    /\ ret.val.stress = [date |-> call.arg, stress_level |-> 3, stress_factors |-> "work"]
    /\ ret.val.nutrition.protein = 5
    /\ ScoreWith(ret.val, "stress_level", 8) = ret.val.recovery_score - 1
    /\ ScoreWith(ret.val, "protein", 130) = ret.val.recovery_score + 1

\* C7: get_weekly_comprehensive_analysis() and get_comprehensive_summary()
\* return without raising whichever of the five domains are loaded.
C7_WeeklyNeverRaises ==
    call.op \in {"get_weekly_comprehensive_analysis", "get_comprehensive_summary"}
        => ~Raised(ret)

\* C13: when all five domains are present for the date and the recovery
\* score is 7, performance_factors and recommendations are both empty.
C13_FullScoreNoFindings ==
    (IsDaily /\ DomainsWithRecord(call.arg) = FiveDomains /\ ret.val.recovery_score = 7)
        => /\ ret.val.performance_factors = << >>
           /\ ret.val.recommendations = << >>

\* C13 witness: a daily analysis over five present domains scored 7.
C13_Witness ==
    /\ IsDaily
    /\ DomainsWithRecord(call.arg) = FiveDomains
    /\ ret.val.recovery_score = 7
    /\ ret.val.nutrition.protein = 180
    /\ ret.val.stress.stress_level = 3

----------------------------------------------------------------------------
(* Properties of the HTTP service (specifications SpecService and          *)
(* SpecConcurrent)                                                         *)

\* what a freshly started service holds for a stage after the handler has
\* treated the payload: the request's list if it is non-empty, else None
OwnData(p, stage) ==
    IF Field(p, stage) # << >> THEN ListV(Field(p, stage)) ELSE NoneV

\* the weekly averages of the request's own records of a stage
OwnAverages(p, stage) == WeeklyAverages(stage, OwnData(p, stage)).val

\* the comprehensive summary computed from the request's own records only
OwnSummary(p) ==
    SummaryOrFallback(ComprehensiveAnalyzer_get_comprehensive_summary(
        OwnData(p, "workouts"), OwnData(p, "nutrition"), OwnData(p, "sleep"),
        OwnData(p, "stress"), OwnData(p, "hydration")))

AverageStages == {"nutrition", "sleep", "stress", "hydration"}

\* the `analysis` of the /analyze response to payload p on a freshly
\* started service
FreshAnalysis(p, upstream) ==
    LET keys == {ResultKey(st) : st \in {st \in AverageStages :
                                            /\ Field(p, st) # << >>
                                            /\ OwnAverages(p, st) # EmptyDict}}
                \cup (IF Field(p, "workouts") # << >>
                      THEN {"workout_analysis", "comprehensive_summary"} ELSE {})
    IN  [k \in keys |->
            CASE k = "workout_analysis" ->
                     WorkoutAnalyzer_analyze_workouts(OwnData(p, "workouts"), upstream)
              [] k = "comprehensive_summary" -> OwnSummary(p)
              [] OTHER -> OwnAverages(p, CHOOSE st \in AverageStages : ResultKey(st) = k)]

\* thread t has answered an /analyze request with success
Answered(t) ==
    /\ pc[t] = Done
    /\ payload[t].endpoint = "/analyze"
    /\ response[t].status = 200

\* C1: whatever requests were served before, the `analysis` returned for an
\* /analyze request is the one the same payload produces on a freshly
\* started service.
C1_AnalysisIsRequestScoped ==
    \A t \in Threads :
        Answered(t) => \E upstream \in Upstreams :
                           response[t].body.analysis = FreshAnalysis(payload[t], upstream)

\* C2: for /analyze requests whose handler steps interleave, each response's
\* per-domain weekly averages and comprehensive summary are computed only
\* from the records of the request being answered.
C2_NoSharingBetweenConcurrentRequests ==
    \A t \in Threads :
        Answered(t) =>
            LET a == response[t].body.analysis IN
            /\ \A st \in AverageStages :
                  HasKey(a, ResultKey(st)) => a[ResultKey(st)] = OwnAverages(payload[t], st)
            /\ HasKey(a, "comprehensive_summary") => a.comprehensive_summary = OwnSummary(payload[t])

\* C17: every error response (status 400 or above) has the body
\* {success: false, error: <message>}, with status 400 for a missing required
\* field and 500 for any other failure.
C17_ErrorResponseShape ==
    \A t \in Threads :
        (response[t] # NoResponse /\ response[t].status >= 400)
            => /\ response[t].status \in {400, 500}
               /\ HasKey(response[t].body, "success")
               /\ response[t].body.success = FALSE
               /\ HasKey(response[t].body, "error")

\* the text analyze_workouts() returned to the handler of thread t
HasAdvice(t) ==
    /\ pc[t] = Done
    /\ \/ payload[t].endpoint = "/workout/analyze" /\ HasKey(results[t], "attempts")
       \/ payload[t].endpoint = "/analyze" /\ HasKey(results[t], "workout_analysis")

Advice(t) ==
    IF payload[t].endpoint = "/workout/analyze" THEN results[t]
    ELSE results[t].workout_analysis

\* C18: analyze_workouts() makes exactly one outbound call; when that call
\* raises, the text returned is the error message, and the request that ran
\* it is answered with status 200 and success.
C18_OneAttemptErrorInline ==
    \A t \in Threads :
        HasAdvice(t)
            => /\ Len(Advice(t).attempts) = 1
               /\ Advice(t).attempts[1] = "raised"
                      => /\ Advice(t).text = "Error calling OpenAI API"
                         /\ response[t].status = 200
                         /\ response[t].body.success = TRUE

\* C18 witness: an /analyze request whose outbound call raised was answered
\* with success and carries the error text as its workout analysis.
C18_Witness ==
    \E t \in Threads :
        /\ HasAdvice(t)
        /\ payload[t].endpoint = "/analyze"
        /\ Advice(t).attempts = <<"raised">>
        /\ response[t].status = 200
        /\ response[t].body.analysis.workout_analysis.text = "Error calling OpenAI API"

\* the direction of a trend: its last value against the one before it
Direction(xs) ==
    IF Len(xs) < 2 THEN "none"
    ELSE IF Last(xs) > Previous(xs) THEN "increasing"
    ELSE IF Last(xs) < Previous(xs) THEN "decreasing"
    ELSE "stable"

Emitted(recommendation, recs) == \E i \in 1..Len(recs) : recs[i] = recommendation

IsWeekly == call.op = "get_weekly_comprehensive_analysis" /\ ~Raised(ret)

\* two-day trends of sleep hours and of water intake, in tenths
SleepSeries == {<<a, b>> : a, b \in {50, 60, 75, 80}}
HydrationSeries == {<<a, b>> : a, b \in {10, 15, 30, 35}}

\* the weekly recommendations had the sleep trend, or the hydration trend,
\* of the analysis returned been another
RecsWithSleep(hours) ==
    ComprehensiveAnalyzer__generate_weekly_recommendations(
        ret.val.workout_trends, ret.val.nutrition_trends,
        [ret.val.sleep_trends EXCEPT !.sleep_hours = hours],
        ret.val.stress_trends, ret.val.hydration_trends).val

RecsWithHydration(intake) ==
    ComprehensiveAnalyzer__generate_weekly_recommendations(
        ret.val.workout_trends, ret.val.nutrition_trends, ret.val.sleep_trends,
        ret.val.stress_trends,
        [ret.val.hydration_trends EXCEPT !.water_intake = intake]).val

\* C27: each weekly recommendation of the comprehensive analyzer is decided
\* by the direction of its metric's 7-window trend, the last value against
\* the previous one: the workout-volume recommendation is emitted exactly
\* on an increase, and the sleep and hydration recommendations are the same
\* for any two trends of the same direction.
C27_WeeklyRecsFollowDirection ==
    IsWeekly
        => /\ Emitted("Increase recovery focus as workout volume increases",
                      ret.val.weekly_recommendations)
                 <=> Direction(ret.val.workout_trends.total_volume) = "increasing"
           /\ \A hours \in SleepSeries :
                 Direction(hours) = Direction(ret.val.sleep_trends.sleep_hours)
                    => (Emitted("Prioritize sleep to support workout performance",
                                RecsWithSleep(hours))
                           <=> Emitted("Prioritize sleep to support workout performance",
                                       ret.val.weekly_recommendations))
           /\ \A intake \in HydrationSeries :
                 Direction(intake) = Direction(ret.val.hydration_trends.water_intake)
                    => (Emitted("Maintain consistent hydration to support workout performance",
                                RecsWithHydration(intake))
                           <=> Emitted("Maintain consistent hydration to support workout performance",
                                       ret.val.weekly_recommendations))

\* what decides them: the workout-volume recommendation follows the
\* direction, the sleep and hydration recommendations the last value alone
WeeklyRecsFollowLastValue ==
    IsWeekly
        => /\ Emitted("Increase recovery focus as workout volume increases",
                      ret.val.weekly_recommendations)
                 <=> Direction(ret.val.workout_trends.total_volume) = "increasing"
           /\ Emitted("Prioritize sleep to support workout performance",
                      ret.val.weekly_recommendations)
                 <=> /\ Len(ret.val.sleep_trends.sleep_hours) >= 2
                     /\ Last(ret.val.sleep_trends.sleep_hours) < 70
           /\ Emitted("Maintain consistent hydration to support workout performance",
                      ret.val.weekly_recommendations)
                 <=> /\ Len(ret.val.hydration_trends.water_intake) >= 2
                     /\ Last(ret.val.hydration_trends.water_intake) < 25

\* the warning of each metric and the recommendation for the same metric
FactorAndRecommendation ==
    { <<"Low protein intake limiting recovery", "Increase protein intake to 120g+ daily">>,
      <<"Insufficient sleep affecting performance", "Aim for 7-9 hours of sleep nightly">>,
      <<"Poor sleep quality impacting recovery", "Improve sleep hygiene and environment">>,
      <<"High stress levels affecting workout performance", "Implement stress management techniques">>,
      <<"Low water intake affecting performance and recovery", "Increase water intake to 2.5+ liters daily">>,
      <<"Poor hydration quality impacting workout performance", "Improve hydration quality and timing">> }

\* C29: in the daily comprehensive analysis every performance-factor
\* warning comes with the recommendation for the same metric, so
\* recommendations never has fewer entries than performance_factors.
C29_WarningHasRecommendation ==
    IsDaily
        => /\ \A p \in FactorAndRecommendation :
                 Emitted(p[1], ret.val.performance_factors)
                    => Emitted(p[2], ret.val.recommendations)
           /\ Len(ret.val.recommendations) >= Len(ret.val.performance_factors)

\* C29 witness: a daily analysis over all five domains warns of low water
\* intake among other factors and recommends more water.
C29_Witness ==
    /\ IsDaily
    /\ DomainsWithRecord(call.arg) = FiveDomains
    /\ Len(ret.val.performance_factors) >= 2
    /\ Emitted("Low water intake affecting performance and recovery", ret.val.performance_factors)
    /\ Emitted("Increase water intake to 2.5+ liters daily", ret.val.recommendations)

----------------------------------------------------------------------------
(* Properties of the loaders (specification SpecLoaders) *)

\* the keys a record of the domain must have, the key of its nested list
\* and the keys each element of that list must have
RequiredOf(domain) ==
    CASE domain = "workout" -> {"date", "exercises"}
      [] domain = "nutrition" -> {"date", "foods"}
      [] domain = "sleep" -> {"date", "sleep_hours", "sleep_quality"}
      [] domain = "stress" -> {"date", "stress_level", "stress_factors"}
      [] domain = "hydration" -> {"date", "water_intake", "hydration_quality"}

WellFormedSet(s) == IsMapping(s) /\ HasKey(s, "reps")

WellFormedExercise(e) ==
    /\ IsMapping(e)
    /\ {"name", "weight", "sets"} \subseteq DOMAIN e
    /\ IsList(e.sets)
    /\ \A i \in 1..Len(e.sets) : WellFormedSet(e.sets[i])

WellFormedFood(f) ==
    IsMapping(f) /\ {"name", "calories", "protein", "carbs", "fat"} \subseteq DOMAIN f

WellFormedRecord(domain, r) ==
    /\ IsMapping(r)
    /\ RequiredOf(domain) \subseteq DOMAIN r
    /\ domain = "workout"
          => /\ IsList(r.exercises)
             /\ \A i \in 1..Len(r.exercises) : WellFormedExercise(r.exercises[i])
    /\ domain = "nutrition"
          => /\ IsList(r.foods)
             /\ \A i \in 1..Len(r.foods) : WellFormedFood(r.foods[i])

WellFormed(domain, data) ==
    CASE data.kind = "list" ->
             \A i \in 1..Len(data.items) : WellFormedRecord(domain, data.items[i])
      [] data.kind = "dict" -> WellFormedRecord(domain, data.items[1])
      [] OTHER -> FALSE

\* C15: validate of a JSON loader returns False, and does not raise, for a
\* document that lacks a required field or has a wrong shape anywhere: a
\* record, food, exercise or set that is not a mapping, a foods, exercises
\* or sets value that is not a list, a document that is a scalar.
C15_ValidateRejectsWithoutRaising ==
    (call.op = "loader.validate" /\ ~WellFormed(call.arg.domain, call.arg.data))
        => ret = Ret(FALSE)

\* validate accepts exactly the well-formed documents whenever it returns
ValidateDecidesWellFormedness ==
    (call.op = "loader.validate" /\ ~Raised(ret))
        => ret.val = WellFormed(call.arg.domain, call.arg.data)

\* the record list a CSV load was asked for: the lists whose table the
\* loaded file holds
CarriedBy(domain, file) ==
    {recs \in TabularLists(domain) : file.content = TableOf(domain, recs)}

\* C16: for every domain, the CSV loader on the table of a record list
\* returns what the JSON loader returns on the list itself: the same
\* records field for field, for workouts every exercise's full ordered list
\* of sets and the workout type included.
C16_CsvAndJsonLoadsAgree ==
    (call.op = "loader.load" /\ Lower(call.arg.file.suffix) = ".csv")
        => \A recs \in CarriedBy(call.arg.domain, call.arg.file) :
              ret = JSONLoader_load([suffix |-> ".json", content |-> ListV(recs)])

\* the two loaders agree outside workouts, and on the workouts whose
\* exercises were all done in one set
CsvAndJsonLoadsAgreeOnSingleSets ==
    (call.op = "loader.load" /\ Lower(call.arg.file.suffix) = ".csv")
        => \A recs \in CarriedBy(call.arg.domain, call.arg.file) :
              (call.arg.domain = "workout"
                  => \A i \in 1..Len(recs) : recs[i].exercises = <<Pushup>>)
                 => ret = Ret(ListV(recs))

\* the rows of the table a load was given
RowsLoaded == call.arg.file.content.items

\* the rows that open a run: the first row and every row whose date differs
\* from the date of the row before it
RunStarts == {i \in 1..Len(RowsLoaded) : i = 1 \/ RowsLoaded[i].Date # RowsLoaded[i - 1].Date}

\* the last row of the run a row opens
RunEnd(i) ==
    CHOOSE e \in i..Len(RowsLoaded) :
        /\ \A j \in (i + 1)..e : j \notin RunStarts
        /\ e = Len(RowsLoaded) \/ (e + 1) \in RunStarts

\* the child a row contributes, and the child list of a record
ChildOfRow(domain, row) ==
    IF domain = "workout"
    THEN [name |-> row.Exercise, weight |-> row.Weight,
          sets |-> <<[set |-> 1, reps |-> row.Reps]>>]
    ELSE [name |-> row.Food, calories |-> row.Calories, protein |-> row.Protein,
          carbs |-> row.Carbs, fat |-> row.Fat]

ChildrenOf(domain, rec) == IF domain = "workout" THEN rec.exercises ELSE rec.foods

\* a CSV load of a workout or nutrition table that has its columns
GroupedLoad ==
    /\ call.op = "loader.load"
    /\ call.arg.domain \in {"workout", "nutrition"}
    /\ Lower(call.arg.file.suffix) = ".csv"
    /\ call.arg.file.content.kind = "dataframe"
    /\ RequiredColumns(call.arg.domain) \subseteq call.arg.file.content.columns

\* C24: the tabular loaders for workouts and nutrition produce exactly one
\* record per maximal run of consecutive rows sharing a date, in row order,
\* whose child list holds one child per row of the run in row order; rows
\* of the same date that are not adjacent give separate records of that
\* date.
C24_OneRecordPerRun ==
    GroupedLoad
        => /\ ~Raised(ret)
           /\ ret.val.kind = "list"
           /\ Len(ret.val.items) = Cardinality(RunStarts)
           /\ \A i \in RunStarts :
                 LET rec == ret.val.items[Cardinality({j \in RunStarts : j <= i})]
                     children == ChildrenOf(call.arg.domain, rec)
                 IN  /\ rec.date = RowsLoaded[i].Date
                     /\ Len(children) = RunEnd(i) - i + 1
                     /\ \A m \in 1..Len(children) :
                           children[m] = ChildOfRow(call.arg.domain, RowsLoaded[i + m - 1])

\* a nutrition table with dates 1, 1, 2, 1 was loaded into three records,
\* the first of two foods
C24_Witness ==
    /\ GroupedLoad
    /\ call.arg.domain = "nutrition"
    /\ [i \in 1..Len(RowsLoaded) |-> RowsLoaded[i].Date] = <<1, 1, 2, 1>>
    /\ [i \in 1..Len(ret.val.items) |-> ret.val.items[i].date] = <<1, 2, 1>>
    /\ Len(ret.val.items[1].foods) = 2
    /\ ret.val.items[3].foods[1].calories = 400

----------------------------------------------------------------------------
(* Properties of the application (specification SpecApp) *)

AppLoadOps ==
    {"load_workout_data", "load_nutrition_data", "load_sleep_data",
     "load_stress_data", "load_hydration_data"}

Unsupported(suffix) == Lower(suffix) \notin {".json", ".csv"}

\* C14: a file extension other than .json or .csv, compared without regard
\* to case, makes the loader factory raise, and a GymApp.load_<domain>_data
\* call on such a file returns False and leaves the GymApp's stored
\* datasets, its metrics object and the analyzers' record sets as they were
\* before the call.
C14_UnsupportedExtensionChangesNothing ==
    [][(call'.op \in AppLoadOps /\ Unsupported(call'.arg.file.suffix))
          => /\ Raised(DataLoaderFactory_get_loader(call'.arg.file.suffix))
             /\ ret' = Ret(FALSE)
             /\ app' = app
             /\ analyzerVars' = analyzerVars]_vars

\* a readable list under an unregistered suffix was refused by a GymApp
\* that already holds workouts and metrics
C14_Witness ==
    /\ call.op = "load_workout_data"
    /\ call.arg.file = [suffix |-> ".txt", content |-> ListV(<<GoodRecord("workout")>>)]
    /\ ret = Ret(FALSE)
    /\ app.workout_data = ListV(<<[date |-> 1]>>)
    /\ app.metrics = WorkoutMetrics___init__(DictV(GoodRecord("workout")))

----------------------------------------------------------------------------
(* Properties of the workout metrics (specification SpecMetrics) *)

\* the workouts the metrics object holds
Sessions == app.metrics.workout_data.items

ExerciseNames ==
    UNION {{Sessions[i].exercises[j].name : j \in 1..Len(Sessions[i].exercises)} :
           i \in 1..Len(Sessions)}

\* the places <<session, position>> where the exercise is listed with at
\* least two sets
Qualifying(name) ==
    {p \in (1..Len(Sessions)) \X (1..MaxLen) :
        /\ p[2] <= Len(Sessions[p[1]].exercises)
        /\ Sessions[p[1]].exercises[p[2]].name = name
        /\ Len(Sessions[p[1]].exercises[p[2]].sets) >= 2}

\* the sessions where it is
QualifyingSessions(name) == {p[1] : p \in Qualifying(name)}

Before(p, q) == p[1] < q[1] \/ (p[1] = q[1] /\ p[2] < q[2])

\* the entry the exercise at a place is to contribute
FatigueEntry(p) ==
    LET sets == Sessions[p[1]].exercises[p[2]].sets
        reps(k) == Get(sets[k], "reps", 0)
    IN  [date |-> Get(Sessions[p[1]], "date", NoDate),
         fatigue_drop |-> reps(1) - reps(Len(sets)),
         set_reps |-> [k \in 1..Len(sets) |-> reps(k)]]

\* C19 as stated: for each exercise name the result holds exactly one entry
\* per session in which the exercise has at least 2 sets, in encounter
\* order, with fatigue_drop = first-set reps minus last-set reps and
\* set_reps the per-set rep sequence; sessions where it has fewer than 2
\* sets contribute nothing, and an exercise with no qualifying session is
\* not in the result.
C19_OneEntryPerSession ==
    call.op = "calculate_fatigue_patterns"
        => /\ DOMAIN ret.val = {n \in ExerciseNames : QualifyingSessions(n) # {}}
           /\ \A n \in DOMAIN ret.val :
                 /\ Len(ret.val[n]) = Cardinality(QualifyingSessions(n))
                 /\ \A i \in QualifyingSessions(n) :
                       \E p \in Qualifying(n) :
                          /\ p[1] = i
                          /\ ret.val[n][Cardinality({j \in QualifyingSessions(n) : j <= i})]
                                = FatigueEntry(p)

\* C19, amended: one entry per listing of the exercise with at least 2
\* sets, a session that lists the exercise twice contributing twice, in
\* encounter order, with the same fatigue_drop and set_reps; listings with
\* fewer than 2 sets contribute nothing, and an exercise with no qualifying
\* listing is not in the result.
C19_OneEntryPerListing ==
    call.op = "calculate_fatigue_patterns"
        => /\ DOMAIN ret.val = {n \in ExerciseNames : Qualifying(n) # {}}
           /\ \A n \in DOMAIN ret.val :
                 /\ Len(ret.val[n]) = Cardinality(Qualifying(n))
                 /\ \A p \in Qualifying(n) :
                       ret.val[n][Cardinality({q \in Qualifying(n) : Before(q, p)}) + 1]
                          = FatigueEntry(p)

\* a session listing the bench press twice and one listing a single-set
\* exercise beside a three-set one have been measured
C19_Witness ==
    /\ call.op = "calculate_fatigue_patterns"
    /\ Sessions = <<[date |-> 1, workout_type |-> "Push", exercises |-> <<Bench, Burnout>>],
                    [date |-> 2, workout_type |-> "Push", exercises |-> <<Pushup, Dip>>]>>
    /\ DOMAIN ret.val = {"Bench", "Dip"}
    /\ Len(ret.val["Bench"]) = 2
    /\ ret.val["Bench"][1].fatigue_drop = 2
    /\ ret.val["Bench"][2].fatigue_drop = 12
    /\ ret.val["Dip"] = <<[date |-> 2, fatigue_drop |-> 2, set_reps |-> <<8, 10, 6>>]>>

\* C21: GymApp.analyze_workouts() returns the workout analysis text without
\* raising, whichever optional domains (nutrition, sleep, stress,
\* hydration) are loaded, were never loaded, or were rejected on loading.
C21_AnalyzeWithoutOptionalDomains ==
    call.op = "analyze_workouts"
        => /\ ~Raised(ret)
           /\ ret.val = WorkoutAnalyzer_analyze_workouts(workout_data, call.arg)

\* the domains whose GymApp field is truthy while the analyzer holds nothing
Unbacked ==
    {d \in {"nutrition", "sleep", "stress", "hydration"} :
        /\ Truthy(app[d \o "_data"])
        /\ ~Truthy(CASE d = "nutrition" -> nutrition_data
                     [] d = "sleep" -> sleep_data
                     [] d = "stress" -> stress_data
                     [] d = "hydration" -> hydration_data)}

\* analyze_workouts returns exactly when hydration data is held and no
\* domain is held by the GymApp without being held by its analyzer
AnalyzeReturnsOnlyWithHydration ==
    call.op = "analyze_workouts"
        => (Raised(ret) <=> (~Truthy(app.hydration_data) \/ Unbacked # {}))

\* a source of the domain in a supported format and of the right shape
WellFormedFile(domain, file) ==
    \/ /\ Lower(file.suffix) = ".json"
       /\ WellFormed(domain, file.content)
    \/ /\ Lower(file.suffix) = ".csv"
       /\ file.content.kind = "dataframe"
       /\ RequiredColumns(domain) \subseteq file.content.columns

\* the analyzer's data attribute of a domain
AnalyzerData(domain) ==
    CASE domain = "workout" -> workout_data
      [] domain = "nutrition" -> nutrition_data
      [] domain = "sleep" -> sleep_data
      [] domain = "stress" -> stress_data
      [] domain = "hydration" -> hydration_data

\* the GymApp's own field of a domain
AppData(domain) == app[domain \o "_data"]

\* C22: for a well-formed source in either supported format, validate
\* accepts what the same loader's load returned, so
\* GymApp.load_<domain>_data returns True and the loaded records are
\* installed in the domain's analyzer, for CSV files as for JSON files.
C22_WellFormedSourceLoads ==
    (call.op \in AppLoadOps /\ WellFormedFile(call.arg.domain, call.arg.file))
        => /\ ret = Ret(TRUE)
           /\ AnalyzerData(call.arg.domain) = AppData(call.arg.domain)
           /\ Loader_load(call.arg.domain,
                          DataLoaderFactory_get_loader(call.arg.file.suffix).val,
                          call.arg.file) = Ret(AppData(call.arg.domain))

\* it does hold of the JSON files that carry a list of records
WellFormedJsonListLoads ==
    (/\ call.op \in AppLoadOps
     /\ WellFormedFile(call.arg.domain, call.arg.file)
     /\ Lower(call.arg.file.suffix) = ".json"
     /\ call.arg.file.content.kind = "list")
        => /\ ret = Ret(TRUE)
           /\ AnalyzerData(call.arg.domain) = call.arg.file.content
           /\ AppData(call.arg.domain) = call.arg.file.content

\* C23: whenever GymApp.load_<domain>_data returns False, the GymApp's
\* stored datasets, its metrics object and the analyzers' record sets are
\* as they were before the call, so that the GymApp's field of a domain and
\* the analyzer's record set of that domain never disagree.
C23_FailedLoadChangesNothing ==
    [][(call'.op \in AppLoadOps /\ ret' = Ret(FALSE))
          => /\ app' = app
             /\ analyzerVars' = analyzerVars
             /\ \A d \in Domains : AppData(d)' = AnalyzerData(d)']_vars

\* the positions of the sessions that carry a date
Dated == {i \in 1..Len(Sessions) : Get(Sessions[i], "date", NoDate) # NoDate}

Earliest == CHOOSE d \in {Sessions[i].date : i \in Dated} : \A i \in Dated : d <= Sessions[i].date
Latest == CHOOSE d \in {Sessions[i].date : i \in Dated} : \A i \in Dated : d >= Sessions[i].date

\* what calculate_frequency_analysis is to return when n sessions count
FrequencyOver(n) ==
    /\ ret.val.total_sessions = n
    /\ n < 2 => /\ ret.val.avg_days_between = Quotient(0, 1)
                /\ ~HasKey(ret.val, "date_range")
    /\ n >= 2 => /\ ret.val.avg_days_between.over = n - 1
                 /\ ret.val.avg_days_between.sum >= 0
                 /\ ret.val.avg_days_between.sum * (n - 1)
                       = (Latest - Earliest) * ret.val.avg_days_between.over
                 /\ ret.val.date_range = [from |-> Earliest, to |-> Latest]

\* C25 as stated: calculate_frequency_analysis() over a list of n workouts
\* returns total_sessions = n; for n < 2, avg_days_between = 0 and no
\* date_range; for n >= 2, avg_days_between is the mean of the day gaps
\* between consecutive sessions sorted by date, so that it is not negative
\* and times n - 1 gives the days from the earliest to the latest session,
\* and date_range runs from the earliest to the latest date.
C25_FrequencyOverAllWorkouts ==
    call.op = "calculate_frequency_analysis" => FrequencyOver(Len(Sessions))

\* C25, amended: the same, n being the number of workouts that carry a
\* date; a workout without one is not counted.
C25_FrequencyOverDatedWorkouts ==
    call.op = "calculate_frequency_analysis" => FrequencyOver(Cardinality(Dated))

\* three sessions loaded as days 5, 1, 2 were measured: gaps 1 and 3
C25_Witness ==
    /\ call.op = "calculate_frequency_analysis"
    /\ [i \in 1..Len(Sessions) |-> Get(Sessions[i], "date", NoDate)] = <<5, 1, 2>>
    /\ ret.val = [avg_days_between |-> Quotient(4, 2), total_sessions |-> 3,
                  date_range |-> [from |-> 1, to |-> 5]]

\* the volume of a workout: over its exercises, weight times the total reps
\* of all sets
VolumeOf(workout) ==
    SumSeq([j \in 1..Len(Get(workout, "exercises", << >>)) |->
               Get(workout.exercises[j], "weight", 0)
                   * SumSeq([k \in 1..Len(Get(workout.exercises[j], "sets", << >>)) |->
                                Get(workout.exercises[j].sets[k], "reps", 0)])])

\* where in calculate_volume_progression's list of its exercise the entry
\* of the j-th exercise of the i-th workout stands: after the entries of
\* the earlier listings of the same name
EntryIndex(i, j) ==
    Cardinality({p \in (1..Len(Sessions)) \X (1..MaxLen) :
                    /\ p[2] <= Len(Get(Sessions[p[1]], "exercises", << >>))
                    /\ Sessions[p[1]].exercises[p[2]].name = Sessions[i].exercises[j].name
                    /\ Before(p, <<i, j>>)}) + 1

\* the sessions the workout trends report: the last seven
Reported == LastN(Sessions, WeekWindow)

\* C26: workout volume is the same everywhere: for every workout, the
\* total_volume in the workout trends of the comprehensive and of the joint
\* analyzer, the value of WorkoutAnalyzer._calculate_workout_volume, and the
\* sum over the workout's exercises of the volume emitted by
\* calculate_volume_progression all equal the sum over exercises of weight
\* times the total reps of all sets.
C26_VolumeIsConsistent ==
    /\ call.op \in {"comprehensive._get_workout_trends", "joint._get_workout_trends"}
          => IF Sessions = << >> THEN ret.val = EmptyDict
             ELSE /\ Len(ret.val.total_volume) = Len(Reported)
                  /\ \A i \in 1..Len(Reported) :
                        ret.val.total_volume[i] = VolumeOf(Reported[i])
    /\ call.op = "_calculate_workout_volume" => ret.val = VolumeOf(Sessions[call.arg])
    /\ call.op = "calculate_volume_progression"
          => \A i \in 1..Len(Sessions) :
                SumSeq([j \in 1..Len(Sessions[i].exercises) |->
                           ret.val[Sessions[i].exercises[j].name][EntryIndex(i, j)].volume])
                   = VolumeOf(Sessions[i])

\* the volume of a session of two bench presses, 60 x 18 + 40 x 12, has
\* been computed by the workout analyzer
C26_Witness ==
    /\ call.op = "_calculate_workout_volume"
    /\ Sessions[call.arg].exercises = <<Bench, Burnout>>
    /\ ret.val = 1560


----------------------------------------------------------------------------
(* Properties of the joint analyzer (specification SpecJoint) *)

IsWeeklyJoint == call.op = "get_weekly_joint_analysis"

\* the series fell: it has two values at least and the last is the smaller
Dropped(xs) == Len(xs) >= 2 /\ Last(xs) < Previous(xs)

\* C30: in the weekly joint analysis a trend label is "decreasing" only
\* when its series has at least two values and the last is smaller than the
\* previous one; so "Maintain consistent nutrition to support workout
\* performance" is recommended only when calories dropped between the last
\* two nutrition entries while the workout volume stayed equal.
C30_DecreasingMeansDropped ==
    IsWeeklyJoint
        => LET a == ret.val
               labels == a.correlation_insights
           IN  /\ Get(labels, "workout_volume_trend", "") = "decreasing"
                     => Dropped(a.workout_trends.total_volume)
               /\ Get(labels, "nutrition_trend", "") = "decreasing"
                     => Dropped(a.nutrition_trends.calories)
               /\ Emitted("Maintain consistent nutrition to support workout performance",
                          a.weekly_recommendations)
                     => /\ Dropped(a.nutrition_trends.calories)
                        /\ Len(a.workout_trends.total_volume) >= 2
                        /\ Last(a.workout_trends.total_volume)
                              = Previous(a.workout_trends.total_volume)

\* with two values or more in both series the labels do tell the direction
LabelsOfTwoValuesTellDirection ==
    (/\ IsWeeklyJoint
     /\ HasKey(ret.val.correlation_insights, "nutrition_trend")
     /\ Len(ret.val.workout_trends.total_volume) >= 2
     /\ Len(ret.val.nutrition_trends.calories) >= 2)
        => /\ ret.val.correlation_insights.workout_volume_trend
                 = Direction(ret.val.workout_trends.total_volume)
           /\ ret.val.correlation_insights.nutrition_trend
                 = Direction(ret.val.nutrition_trends.calories)
           /\ Emitted("Maintain consistent nutrition to support workout performance",
                      ret.val.weekly_recommendations)
                 <=> /\ Dropped(ret.val.nutrition_trends.calories)
                     /\ Direction(ret.val.workout_trends.total_volume) = "stable"
====
